---- MODULE Spec2Model ----
(***************************************************************************)
(* A model of the connection and dispatch engine of ensime-vim:            *)
(*   - EnsimeClient (ensime_shared/ensime.py): connection lifecycle, the   *)
(*     pump thread (queue_poll), call-id assignment, send/reconnect, and   *)
(*     the drain loop (unqueue);                                           *)
(*   - TypecheckHandler (ensime_shared/typecheck.py) driven through the    *)
(*     handler table of ProtocolHandler (ensime_shared/protocol.py).       *)
(*                                                                         *)
(* The methods of EnsimeClient are operators over a record `s` holding the *)
(* object's fields together with the effects on its collaborators (the     *)
(* websocket, the launcher process, the editor), so that the nested calls  *)
(* send -> reconnect -> connect_ensime_server -> send_request -> send      *)
(* compose as they do in the code.  An exception propagating out of a      *)
(* method is the field `raised`; `with catch(E, h)` runs h on an exception *)
(* of the block, and what h itself raises leaves the block.                *)
(***************************************************************************)
EXTENDS Integers, Sequences, FiniteSets, TLC

\* ------------------------------------------------------------- bounds
MaxRequests == 3     \* send_request calls made by the caller
MaxFrames == 2       \* frames the server sends
MaxDisables == 2     \* calls of disable_plugin explored
MaxEvents == 5       \* operations on the TypecheckHandler explored
TimeoutTicks == 2    \* sleeps of unqueue that exhaust its timeout
MaxDocRequests == 1  \* doc_uri and doc_browse calls explored
MaxSymbolRequests == 1 \* open_declaration and symbol calls explored
MaxChoices == 3      \* length of the choices handed to Editor.menu

\* ------------------------------------------------------------- values
None == 0            \* self.ws = None; a connection is a positive number
NoCallId == -1       \* _json.get("callId") of an envelope without callId

\* request bodies the caller passes to send_request; the engine never reads them
Requests == {"TypecheckFilesReq"}

\* What ws.recv() may return: a falsy or "nil" text, or a JSON envelope
\* whose payload is null or carries a typehint.
Frames ==
  { [raw |-> "nil",  callId |-> NoCallId, payload |-> "null"],
    [raw |-> "json", callId |-> NoCallId, payload |-> "null"],
    [raw |-> "json", callId |-> NoCallId, payload |-> "AnalyzerReadyEvent"],
    [raw |-> "json", callId |-> NoCallId, payload |-> "UnknownEvent"] }

\* The frames of the drain in detail: also an envelope without a payload
\* key, and replies that echo the callId of a request.
DrainFrames ==
  Frames \cup
  { [raw |-> "json", callId |-> 1, payload |-> "absent"],
    [raw |-> "json", callId |-> 1, payload |-> "StringResponse"] }

\* a payload of which the model reads the typehint only
NoBody == [typehint_only |-> TRUE]

\* SymbolInfo payloads: whether "declPos" is there, whether it has a "file",
\* and whether it has the typehint and the line or offset set_position reads
SymbolInfoBodies ==
  { [declPos |-> FALSE, file |-> FALSE, position |-> FALSE],
    [declPos |-> TRUE,  file |-> FALSE, position |-> FALSE],
    [declPos |-> TRUE,  file |-> TRUE,  position |-> FALSE],
    [declPos |-> TRUE,  file |-> TRUE,  position |-> TRUE] }

\* the refactor kinds apply_refactor lists
SupportedRefactors == {"Rename", "InlineLocal", "AddImport", "OrganizeImports"}

\* RefactorDiffEffect payloads: payload["refactorType"]["typehint"],
\* whether the patch utility accepts payload["diff"] for the file it is run
\* on, and the procedure id the server echoes
RefactorBodies ==
  [refactorType : SupportedRefactors \cup {"ExtractMethod"},
   diff : {"applies", "rejects"},
   procedureId : {1}]

\* how many refactor requests a behaviour sends
MaxRefactors == 2

\* the files the user has open
Paths == {"A.scala", "B.scala"}

\* RefactorDiffEffect replies to the refactor requests sent
RefactorFrames ==
  { [raw |-> "json", callId |-> k, payload |-> "RefactorDiffEffect",
     body |-> [refactorType |-> r, diff |-> "applies", procedureId |-> k]] :
      k \in 1..MaxRefactors, r \in {"Rename", "ExtractMethod"} }

\* The replies whose handlers drive the editor.
HandlerFrames ==
  { [raw |-> "json", callId |-> 1, payload |-> "SymbolInfo", body |-> b] :
      b \in SymbolInfoBodies }
  \cup
  { [raw |-> "json", callId |-> 2, payload |-> "RefactorDiffEffect",
     body |-> b] : b \in RefactorBodies }

\* no call of Editor.menu yet
NoMenuCall ==
  [called |-> FALSE, choices |-> << >>, selection |-> 0, result |-> << >>]

\* names under which on_receive registers observers
ObserverNames == {"o1", "o2"}

VARIABLES
  \* EnsimeClient fields
  running, ws, ensime, websocket_exists, number_try_connection, call_id,
  toggle_teardown, queue,
  call_options,     \* call id -> the options stored for the pending call
  receive_callbacks, \* names registered through on_receive
  completion_started,
  \* threads of control
  pump_pc,          \* queue_poll: "loop" | "recv" | "exited"
  main_pc,          \* the caller: "idle" | "unqueue"
  \* collaborators, as the engine's observable effects
  received,         \* frames ws.recv() returned, in order
  handled,          \* arrival numbers passed to handle_incoming_response
  assigned,         \* per returned send_request: [ret, env]
  wire,             \* envelopes ws.send() transmitted
  n_write,          \* calls of ws.send()
  n_create,         \* calls of create_connection()
  n_disable_completely,
  n_disable_plugin, \* calls of disable_plugin()
  n_stop,           \* calls of launcher process stop()
  raised,           \* whether the caller's last operation raised
  uq,               \* the locals of the running unqueue call
  observed,         \* per trigger_callbacks: [n, names of observers invoked]
  ran,              \* handlers invoked: [n, typehint, call_id]
  messages,         \* what message / raw_message showed the user
  n_unhandled,      \* "unhandled response" lines written to the log
  pump_vim,         \* how code running on the pump thread reached the editor
  vim_commands,     \* editor commands the handlers issued, by key
  en_format_source_id, \* the id format_source got, or None
  buffer_overwrites, \* call ids of the replies whose text replaced the buffer
  refactor_id,      \* the procId of the next refactor request
  refactorings,     \* procId -> the file recorded by send_refactor_request
  current_path,     \* self.path(): the file of the current buffer
  patched,          \* files handed to the patch utility, in order
  suggestions,      \* self.suggestions: None, or << the list >>
  \* TypecheckHandler fields and its editor
  currently_buffering_typechecks, buffered_notes,
  display_notes,    \* batches handed to editor.display_notes
  tc_history,       \* operations applied to the TypecheckHandler
  tc_reported,      \* typehints raw_message reported as not supported
  tc_raised,        \* whether the last handle_incoming_response raised
  \* Editor
  menu_call,        \* the last Editor.menu call: its inputs and its result
  \* Ensime, the plugin object that owns the clients
  clients,          \* Ensime.clients: config path -> the client cached for it
  constructed,      \* the EnsimeClient objects built, in order: the config
                    \* path of each and its `running`, which keeps its pump
                    \* thread alive
  \* history
  drains,           \* the unqueue_and_display calls observed: the frames each
                    \* took, whether it raised, and the frames then queued
  completes         \* the complete_func calls observed: findstart, what the
                    \* call found and returned, and what it left behind

clientVars ==
  << running, ws, ensime, websocket_exists, number_try_connection, call_id,
     toggle_teardown, assigned, wire, n_write, n_create,
     n_disable_completely, n_disable_plugin, n_stop,
     call_options, receive_callbacks, completion_started, observed, ran,
     messages, n_unhandled, pump_vim, vim_commands, en_format_source_id,
     buffer_overwrites, refactor_id, refactorings, current_path, patched,
     suggestions >>
queueVars == << queue, received, handled >>
tcVars == << currently_buffering_typechecks, buffered_notes, display_notes,
             tc_history, tc_reported, tc_raised >>
pluginVars == << clients, constructed >>
\* what no operation of the one client touches
editorVars == << menu_call, pluginVars, drains, completes >>
vars == << clientVars, queueVars, pump_pc, main_pc, raised, uq, tcVars,
           editorVars >>

\* ------------------------------------------------- the client as a record
\* `faults`: how many of the next ws.send() calls raise; `conn_ok`: whether
\* create_connection() succeeds.  Both are the environment's choice, fixed
\* by the action that starts the operation.  `thread` is the thread the code
\* runs on, `threadsafe` whether vim.session.threadsafe_call() is there and
\* succeeds (Neovim) or raises (Vim), `ret` what the method returns, `body`
\* the payload being dispatched, beyond its typehint.
State(faults, conn_ok) ==
  [ running |-> running, ws |-> ws, ensime |-> ensime,
    websocket_exists |-> websocket_exists,
    number_try_connection |-> number_try_connection, call_id |-> call_id,
    toggle_teardown |-> toggle_teardown,
    assigned |-> assigned, wire |-> wire, n_write |-> n_write,
    n_create |-> n_create, n_disable_completely |-> n_disable_completely,
    n_disable_plugin |-> n_disable_plugin, n_stop |-> n_stop,
    call_options |-> call_options, receive_callbacks |-> receive_callbacks,
    completion_started |-> completion_started, observed |-> observed,
    ran |-> ran, messages |-> messages, n_unhandled |-> n_unhandled,
    pump_vim |-> pump_vim, vim_commands |-> vim_commands,
    en_format_source_id |-> en_format_source_id,
    buffer_overwrites |-> buffer_overwrites,
    refactor_id |-> refactor_id, refactorings |-> refactorings,
    current_path |-> current_path, patched |-> patched,
    suggestions |-> suggestions,
    faults |-> faults, conn_ok |-> conn_ok, raised |-> FALSE,
    passed |-> FALSE, thread |-> "main", threadsafe |-> TRUE,
    ret |-> FALSE, body |-> NoBody ]

Commit(s) ==
  /\ running' = s.running
  /\ ws' = s.ws
  /\ ensime' = s.ensime
  /\ websocket_exists' = s.websocket_exists
  /\ number_try_connection' = s.number_try_connection
  /\ call_id' = s.call_id
  /\ toggle_teardown' = s.toggle_teardown
  /\ assigned' = s.assigned
  /\ wire' = s.wire
  /\ n_write' = s.n_write
  /\ n_create' = s.n_create
  /\ n_disable_completely' = s.n_disable_completely
  /\ n_disable_plugin' = s.n_disable_plugin
  /\ n_stop' = s.n_stop
  /\ call_options' = s.call_options
  /\ receive_callbacks' = s.receive_callbacks
  /\ completion_started' = s.completion_started
  /\ observed' = s.observed
  /\ ran' = s.ran
  /\ messages' = s.messages
  /\ n_unhandled' = s.n_unhandled
  /\ pump_vim' = s.pump_vim
  /\ vim_commands' = s.vim_commands
  /\ en_format_source_id' = s.en_format_source_id
  /\ buffer_overwrites' = s.buffer_overwrites
  /\ refactor_id' = s.refactor_id
  /\ refactorings' = s.refactorings
  /\ current_path' = s.current_path
  /\ patched' = s.patched
  /\ suggestions' = s.suggestions
  /\ raised' = s.raised

\* --------------------------------------------------- EnsimeClient methods
RECURSIVE send(_, _), connect_ensime_server(_), send_request(_, _)

\* self.ws.send(msg + "\n"): raises when the transport fails
ws_send(s, msg) ==
  IF s.faults > 0
    THEN [s EXCEPT !.faults = @ - 1, !.n_write = @ + 1, !.raised = TRUE]
    ELSE [s EXCEPT !.n_write = @ + 1, !.wire = Append(@, msg)]

\* websocket.create_connection(self.ensime_server): a new connection, or raises
create_connection(s) ==
  IF s.conn_ok
    THEN [s EXCEPT !.n_create = @ + 1, !.ws = s.n_create + 1]
    ELSE [s EXCEPT !.n_create = @ + 1, !.raised = TRUE]

shutdown_server(s) ==
  IF s.ensime /\ s.toggle_teardown THEN [s EXCEPT !.n_stop = @ + 1] ELSE s

\* threadsafe_vim(command):
\* with catch(Exception, normal_vim): self.vim.session.threadsafe_call(command)
\* where normal_vim runs self.vim.command(command) on the calling thread
threadsafe_vim(s) ==
  IF s.thread = "pump"
    THEN [s EXCEPT !.pump_vim = @ \cup {IF s.threadsafe THEN "threadsafe_call"
                                                         ELSE "command"}]
    ELSE s

\* disable_plugin: the disable command of the runtime paths and the warning
\* message, each through threadsafe_vim
disable_plugin(s) ==
  threadsafe_vim(threadsafe_vim([s EXCEPT !.n_disable_plugin = @ + 1]))

\* teardown that stops the server but leaves running set
teardown_keep_running(s) == shutdown_server(s)

teardown(s) == shutdown_server([s EXCEPT !.running = FALSE])

\* the handler nested in connect_ensime_server
disable_completely(s) ==
  disable_plugin(shutdown_server([s EXCEPT !.n_disable_completely = @ + 1]))

\* connect_ensime_server without the attempt counter: it connects every time
connect_ensime_server_uncounted(s) ==
  IF s.running
    THEN LET s2 == create_connection(s)
             s3 == IF s2.raised
                     THEN disable_completely([s2 EXCEPT !.raised = FALSE])
                     ELSE s2
         IN  IF s3.ws # None
               THEN send_request(s3, "ConnectionInfoReq")
               ELSE s3
    ELSE disable_completely(s)

connect_ensime_server(s) ==
  IF s.running /\ s.number_try_connection # 0
    THEN LET s1 == [s EXCEPT !.number_try_connection = @ - 1]
             s2 == create_connection(s1)
             \* with catch(Exception, disable_completely)
             s3 == IF s2.raised
                     THEN disable_completely([s2 EXCEPT !.raised = FALSE])
                     ELSE s2
         IN  IF s3.ws # None
               THEN send_request(s3, "ConnectionInfoReq")
               ELSE s3
    ELSE disable_completely(s)

\* the handler nested in send; what it raises leaves send
reconnect(s, msg) ==
  LET s1 == connect_ensime_server(s)
  IN  IF s1.raised THEN s1
      ELSE IF s1.ws # None THEN ws_send(s1, msg) ELSE s1

\* send that forgets to look at self.running
send_unguarded(s, msg) ==
  IF s.ws # None
    THEN LET s1 == ws_send(s, msg)
         IN  IF s1.raised
               THEN reconnect([s1 EXCEPT !.raised = FALSE], msg)
               ELSE s1
    ELSE s

send(s, msg) ==
  IF s.running /\ s.ws # None
    THEN LET s1 == ws_send(s, msg)
         IN  IF s1.raised
               THEN reconnect([s1 EXCEPT !.raised = FALSE], msg)
               ELSE s1
    ELSE s

\* send_request returning the id after the increment
send_request_off_by_one(s, request) ==
  LET s1 == send(s, [callId |-> s.call_id, req |-> request])
  IN  IF s1.raised THEN s1
      ELSE [s1 EXCEPT !.call_id = @ + 1,
                      !.assigned = Append(@, [ret |-> s1.call_id + 1,
                                              env |-> s.call_id,
                                              req |-> request])]

\* json.dumps({"callId": self.call_id, "req": request}) is built before
\* send runs; the id returned is read after it.
send_request(s, request) ==
  LET s1 == send(s, [callId |-> s.call_id, req |-> request])
  IN  IF s1.raised THEN s1
      ELSE [s1 EXCEPT !.call_id = @ + 1,
                      !.assigned = Append(@, [ret |-> s1.call_id,
                                              env |-> s.call_id,
                                              req |-> request])]

\* setup: self.running and lazy_initialize_ensime() and ready_to_connect()
\* lazy_initialize_ensime returns False without a classpath, and otherwise
\* bool(self.ensime)
lazy_initialize_ensime(s, create_classpath, no_classpath, launched) ==
  IF ~s.ensime
    THEN IF ~create_classpath /\ no_classpath
           THEN [s EXCEPT !.ret = FALSE]
           ELSE [s EXCEPT !.ensime = launched, !.ret = launched]
    ELSE [s EXCEPT !.ret = TRUE]

\* ready_to_connect that connects without asking the launcher
ready_to_connect_unasked(s, is_ready) ==
  IF ~s.websocket_exists THEN [s EXCEPT !.ret = FALSE]
  ELSE IF s.ws = None
         THEN [connect_ensime_server(s) EXCEPT !.ret = TRUE]
  ELSE [s EXCEPT !.ret = TRUE]

\* ready_to_connect that does not look at websocket_exists
ready_to_connect_without_module(s, is_ready) ==
  IF s.ws = None /\ is_ready
    THEN [connect_ensime_server(s) EXCEPT !.ret = TRUE]
    ELSE [s EXCEPT !.ret = TRUE]

\* ready_to_connect returns False without the websocket module and True
\* otherwise, whether or not it connected
ready_to_connect(s, is_ready) ==
  IF ~s.websocket_exists THEN [s EXCEPT !.ret = FALSE]
  ELSE IF s.ws = None /\ is_ready
         THEN [connect_ensime_server(s) EXCEPT !.ret = TRUE]
  ELSE [s EXCEPT !.ret = TRUE]

\* the value of `ret` is what setup returns unless it raised
setup(s, create_classpath, no_classpath, launched, is_ready) ==
  IF ~s.running THEN [s EXCEPT !.ret = FALSE]
  ELSE LET s1 == lazy_initialize_ensime(s, create_classpath, no_classpath,
                                        launched)
       IN  IF ~s1.ret THEN s1 ELSE ready_to_connect(s1, is_ready)

\* logger_and_close that tears down without disabling the plugin
logger_and_close_no_disable(s) ==
  IF ~s.running THEN s
  ELSE IF s.number_try_connection = 0 THEN teardown(s)
  ELSE s

\* logger_and_close that does not look at self.running
logger_and_close_unconditional(s) ==
  IF s.number_try_connection = 0 THEN disable_plugin(teardown(s))
  ELSE s

\* the handler nested in queue_poll, run on a receive exception
logger_and_close(s) ==
  IF ~s.running THEN s
  ELSE IF s.number_try_connection = 0 THEN disable_plugin(teardown(s))
  ELSE s

\* self.handlers of EnsimeClient.register_responses_handlers
handlers ==
  { "SymbolInfo", "IndexerReadyEvent", "AnalyzerReadyEvent",
    "NewScalaNotesEvent", "BasicTypeInfo", "ArrowTypeInfo", "StringResponse",
    "CompletionInfoList", "TypeInspectInfo", "SymbolSearchResults",
    "DebugOutputEvent", "DebugBreakEvent", "DebugBacktrace", "DebugVmError",
    "RefactorDiffEffect", "ImportSuggestions", "PackageInfo" }

\* unqueue: `if result and result != "nil"` and `if _json["payload"]`
Dispatched(frame) ==
  frame.raw # "nil" /\ frame.payload \notin {"null", "absent"}

\* queue.put(result) and queue.get(False) of the FIFO queue.Queue
queue_put(q, item) == Append(q, item)
\* a LIFO get
queue_get_last(q) == [item |-> q[Len(q)], rest |-> SubSeq(q, 1, Len(q) - 1)]

queue_get(q) == [item |-> Head(q), rest |-> Tail(q)]


\* ------------------------------------------------ the drain: unqueue
\* self.call_options[k] = v and del self.call_options[k]
Stored(opts, k, v) ==
  [i \in DOMAIN opts \cup {k} |-> IF i = k THEN v ELSE opts[i]]
Deleted(opts, k) == [i \in DOMAIN opts \ {k} |-> opts[i]]

\* message(key): raw_message(feedback[key])
message(s, key) == [s EXCEPT !.messages = Append(@, key)]

\* handle_doc_uri: `if not self.en_format_source_id` (None and the id 0 are
\* both false) the reply is a doc path, and self.call_options[call_id] raises
\* KeyError when the call stored no options; otherwise the text replaces the
\* buffer, whatever call the reply answers
handle_doc_uri(s, cid, payload) ==
  IF s.en_format_source_id = None
    THEN IF cid \notin DOMAIN s.call_options
           THEN [s EXCEPT !.raised = TRUE]
           ELSE [s EXCEPT !.call_options = Deleted(@, cid)]
    ELSE [s EXCEPT !.buffer_overwrites = Append(@, cid),
                   !.en_format_source_id = None]

handle_string_response(s, cid, payload) == handle_doc_uri(s, cid, payload)

\* handle_completion_info_list: self.suggestions = [...] of the payload's
\* completions, kept as the call id they answer
handle_completion_info_list(s, cid) == [s EXCEPT !.suggestions = << cid >>]

\* self.vim.command(commands[key]...) and self.vim_command(key)
vim_command(s, key) == [s EXCEPT !.vim_commands = Append(@, key)]

\* clean_errors: clearmatches() and the reset of the syntastic notes
clean_errors(s) == vim_command(s, "syntastic_reset_notes")

\* set_position(decl_pos): decl_pos["typehint"], then decl_pos["line"] or
\* decl_pos["offset"], a KeyError when the key is not there
set_position(s, body) ==
  IF body.position THEN vim_command(s, "go_to_char")
                   ELSE [s EXCEPT !.raised = TRUE]

\* the block of handle_symbol_info under `with catch(KeyError, warn)`; the
\* options stored are "display" (symbol) or "open_definition"
\* (open_declaration, symbol_by_name)
symbol_info_block(s, cid, body) ==
  IF ~body.declPos THEN [s EXCEPT !.raised = TRUE]
  ELSE IF cid \notin DOMAIN s.call_options THEN [s EXCEPT !.raised = TRUE]
  ELSE LET opts == s.call_options[cid]
           s1 == IF opts = "display" /\ body.file
                   THEN vim_command(s, "display_message")
                   ELSE s
       IN  IF opts = "open_definition" /\ body.file
             THEN LET s2 == vim_command(
                              vim_command(
                                vim_command(clean_errors(s1),
                                            "doautocmd_bufleave"),
                                "edit_file"),
                              "doautocmd_bufreadenter")
                      s3 == set_position(s2, body)
                  IN  IF s3.raised THEN s3
                      ELSE [s3 EXCEPT !.call_options = Deleted(@, cid)]
             ELSE s1

\* handle_symbol_info: warn = lambda e: self.message("unknown_symbol")
handle_symbol_info(s, cid, body) ==
  LET s1 == symbol_info_block(s, cid, body)
  IN  IF s1.raised
        THEN message([s1 EXCEPT !.raised = FALSE], "unknown_symbol")
        ELSE s1

\* apply_refactor: path = self.path(), the file of the current buffer, is the
\* file the patch utility is run on; patched keeps the runs, each with the
\* procedure id of the payload
patch(s, body) ==
  [s EXCEPT !.patched = Append(@, [procedureId |-> body.procedureId,
                                   path |-> s.current_path])]

\* apply_refactor that reloads the file only when the patch was applied
apply_refactor_reload_on_success(s, cid, body) ==
  IF body.refactorType \in SupportedRefactors
    THEN LET s0 == patch(s, body)
         IN  IF body.diff = "rejects"
               THEN message(s0, "failed_refactoring")
               ELSE vim_command(vim_command(s0, "edit_file"),
                                "doautocmd_bufreadenter")
    ELSE s

\* apply_refactor: failed = Popen(["patch", ...]).wait(), the message when it
\* is not zero, then the reload of the file in either case
apply_refactor(s, cid, body) ==
  IF body.refactorType \in SupportedRefactors
    THEN LET s0 == patch(s, body)
             s1 == IF body.diff = "rejects"
                     THEN message(s0, "failed_refactoring")
                     ELSE s0
         IN  vim_command(vim_command(s1, "edit_file"),
                         "doautocmd_bufreadenter")
    ELSE s

\* handle_incoming_response that runs the StringResponse handler on a
\* typehint without a handler
handle_incoming_response_default(s, n, cid, payload) ==
  LET s1 == [s EXCEPT !.ran = Append(@, [n |-> n, typehint |-> payload,
                                         call_id |-> cid])]
  IN  CASE payload = "AnalyzerReadyEvent" -> message(s1, "analyzer_ready")
        [] payload = "IndexerReadyEvent" -> message(s1, "indexer_ready")
        [] OTHER -> handle_string_response(s1, cid, payload)

\* handle_incoming_response whose AnalyzerReadyEvent handler looks the call up
handle_incoming_response_lookup(s, n, cid, payload) ==
  IF payload \in handlers
    THEN LET s1 == [s EXCEPT !.ran = Append(@, [n |-> n, typehint |-> payload,
                                                 call_id |-> cid])]
         IN  CASE payload = "AnalyzerReadyEvent" ->
                    handle_doc_uri(message(s1, "analyzer_ready"), cid, payload)
               [] payload = "IndexerReadyEvent" ->
                    message(s1, "indexer_ready")
               [] payload = "StringResponse" ->
                    handle_string_response(s1, cid, payload)
               [] OTHER -> s1
    ELSE [s EXCEPT !.n_unhandled = @ + 1]

\* EnsimeClient.handle_incoming_response: the handler of the typehint runs,
\* and what it raises is not caught; the handlers whose effects are not
\* modelled only leave their trace in `ran`
handle_incoming_response(s, n, cid, payload) ==
  IF payload \in handlers
    THEN LET s1 == [s EXCEPT !.ran = Append(@, [n |-> n, typehint |-> payload,
                                                 call_id |-> cid])]
         IN  CASE payload = "AnalyzerReadyEvent" ->
                    message(s1, "analyzer_ready")
               [] payload = "IndexerReadyEvent" ->
                    message(s1, "indexer_ready")
               [] payload = "StringResponse" ->
                    handle_string_response(s1, cid, payload)
               [] payload = "SymbolInfo" ->
                    handle_symbol_info(s1, cid, s1.body)
               [] payload = "RefactorDiffEffect" ->
                    apply_refactor(s1, cid, s1.body)
               [] payload = "CompletionInfoList" ->
                    handle_completion_info_list(s1, cid)
               [] OTHER -> s1
    ELSE [s EXCEPT !.n_unhandled = @ + 1]

\* trigger_callbacks that calls the observers only of unhandled typehints
trigger_callbacks_unhandled(s, n, payload, invoked, fault) ==
  IF payload \in handlers THEN s
  ELSE [s EXCEPT !.observed = Append(@, [n |-> n, names |-> invoked]),
                 !.raised = (fault # "none")]

\* trigger_callbacks: the observers are called in the dictionary's order,
\* `invoked` being those reached; the observer `fault`, if any, raises
trigger_callbacks(s, n, payload, invoked, fault) ==
  [s EXCEPT !.observed = Append(@, [n |-> n, names |-> invoked]),
            !.raised = (fault # "none")]

\* what a traversal of receive_callbacks can reach when `fault` raises
Traversals(callbacks, fault) ==
  IF fault = "none" THEN {callbacks}
  ELSE { P \cup {fault} : P \in SUBSET (callbacks \ {fault}) }

\* `if result and result != "nil"` ... `if _json["payload"]`
Decoded(frame) == frame.raw # "nil"

\* what _json["payload"] holds next to its typehint
Body(frame) == IF "body" \in DOMAIN frame THEN frame.body ELSE NoBody

unqueue_frame(s, item, invoked, fault) ==
  LET frame == item.frame
      s0 == [s EXCEPT !.passed = FALSE]
  IN  IF ~Decoded(frame) THEN s0
      \* json.loads(result) of a text that is not JSON: ValueError
      ELSE IF frame.raw = "garbage" THEN [s0 EXCEPT !.raised = TRUE]
      \* _json["payload"] of an envelope without the key: KeyError
      ELSE IF frame.payload = "absent" THEN [s0 EXCEPT !.raised = TRUE]
      ELSE IF frame.payload = "null" THEN s0
      ELSE LET s1 == trigger_callbacks(s0, item.n, frame.payload, invoked,
                                       fault)
           IN  IF s1.raised THEN s1
               ELSE handle_incoming_response(
                      [s1 EXCEPT !.passed = TRUE, !.body = Body(frame)],
                      item.n, frame.callId, frame.payload)

\* the locals of unqueue: wait is "True", "False" or "None"; elapsed is
\* now - start, counted in sleeps
UqIdle ==
  [should_wait |-> FALSE, wait |-> "False", elapsed |-> 0, caller |-> "none"]

\* unqueue that waits on an empty queue whatever should_wait says
UqEnter_always_wait(should_wait, caller) ==
  [should_wait |-> should_wait,
   wait |-> IF queue = << >> THEN "True" ELSE "False",
   elapsed |-> 0, caller |-> caller]

\* start, now = time.time(), time.time()
\* wait = self.queue.empty() and should_wait
UqEnter(should_wait, caller) ==
  [should_wait |-> should_wait,
   wait |-> IF queue = << >> /\ should_wait THEN "True" ELSE "False",
   elapsed |-> 0, caller |-> caller]

\* a loop condition that forgets `wait`
UqLoops_no_wait == queue # << >> /\ uq.elapsed < TimeoutTicks

\* a loop condition that reads the should_wait argument
UqLoops_should_wait ==
  (queue # << >> \/ uq.should_wait) /\ uq.elapsed < TimeoutTicks

\* `while (not self.queue.empty() or wait) and (now - start) < timeout`
UqLoops ==
  (queue # << >> \/ uq.wait = "True") /\ uq.elapsed < TimeoutTicks

\* ------------------------------------------------------------- actions
Init ==
  /\ running = TRUE
  /\ ws = None
  /\ ensime = FALSE
  /\ websocket_exists \in BOOLEAN
  /\ number_try_connection = 1
  /\ call_id = 0
  /\ toggle_teardown = TRUE
  /\ queue = << >>
  /\ pump_pc = "loop"
  /\ main_pc = "idle"
  /\ received = << >>
  /\ handled = << >>
  /\ assigned = << >>
  /\ wire = << >>
  /\ n_write = 0
  /\ n_create = 0
  /\ n_disable_completely = 0
  /\ n_disable_plugin = 0
  /\ n_stop = 0
  /\ raised = FALSE
  /\ call_options = << >>
  /\ receive_callbacks = {}
  /\ completion_started = FALSE
  /\ uq = UqIdle
  /\ observed = << >>
  /\ ran = << >>
  \* if not self.websocket_exists: self.tell_module_missing(...)
  /\ messages = IF websocket_exists THEN << >> ELSE << "module_missing" >>
  /\ n_unhandled = 0
  /\ pump_vim = {}
  /\ vim_commands = << >>
  /\ en_format_source_id = None
  /\ buffer_overwrites = << >>
  /\ refactor_id = 1
  /\ refactorings = << >>
  /\ current_path = "A.scala"
  /\ patched = << >>
  /\ suggestions = << >>
  /\ currently_buffering_typechecks = FALSE
  /\ buffered_notes = << >>
  /\ display_notes = << >>
  /\ tc_history = << >>
  /\ tc_reported = << >>
  /\ tc_raised = FALSE
  /\ menu_call = NoMenuCall
  /\ clients = << >>
  /\ constructed = << >>
  /\ drains = << >>
  /\ completes = << >>

\* The caller's thread: one editor event or command at a time.

\* What a call of setup meets: the create_classpath argument, what the
\* launcher answers (no_classpath_file, launch, is_ready), whether
\* create_connection succeeds and how many ws.send() calls fail.
SetupInputs ==
  { i \in [create_classpath : BOOLEAN, no_classpath : BOOLEAN,
           launched : BOOLEAN, is_ready : BOOLEAN, conn_ok : BOOLEAN,
           faults : 0..2] :
      \* inputs the call does not read are fixed to one value
      /\ ensime => i.create_classpath /\ ~i.no_classpath /\ i.launched
      /\ (ws # None \/ ~i.is_ready \/ ~websocket_exists) => i.conn_ok
      /\ (ws # None \/ ~i.is_ready \/ ~websocket_exists \/ ~i.conn_ok)
            => i.faults = 0 }

\* the client as setup leaves it when it meets the inputs i
SetupResult(i) ==
  setup(State(i.faults, i.conn_ok), i.create_classpath, i.no_classpath,
        i.launched, i.is_ready)

\* setup(quiet, create_classpath), from vim_enter, on_cursor_move, on_cursor_hold
Setup ==
  /\ main_pc = "idle"
  /\ n_disable_plugin < MaxDisables
  /\ \E i \in SetupInputs : Commit(SetupResult(i))
  /\ UNCHANGED << queueVars, pump_pc, main_pc, uq, tcVars, editorVars >>

\* send_request(request), the engine's outward interface
SendRequest ==
  /\ main_pc = "idle"
  /\ call_id < MaxRequests
  /\ \E request \in Requests, faults \in 0..2 :
       /\ faults > 0 => n_disable_plugin < MaxDisables
       /\ Commit(send_request(State(faults, TRUE), request))
  /\ UNCHANGED << queueVars, pump_pc, main_pc, uq, tcVars, editorVars >>

\* teardown(), from Ensime.teardown at VimLeave
Teardown ==
  /\ main_pc = "idle"
  /\ n_stop < MaxDisables
  /\ Commit(teardown(State(0, TRUE)))
  /\ UNCHANGED << queueVars, pump_pc, main_pc, uq, tcVars, editorVars >>

\* unqueue_and_display: `if self.running and self.ws:` ... self.unqueue()
UnqueueAndDisplay ==
  /\ main_pc = "idle"
  /\ running /\ ws # None
  /\ main_pc' = "unqueue"
  /\ uq' = UqEnter(FALSE, "unqueue_and_display")
  /\ raised' = FALSE
  /\ UNCHANGED << clientVars, queueVars, pump_pc, tcVars, editorVars >>

\* result = self.queue.get(False) on a queue that holds a frame, the
\* observers, handle_incoming_response. An exception leaves unqueue and its
\* caller.
UqDispatch ==
  /\ LET got == queue_get(queue)
     IN  \E fault \in receive_callbacks \cup {"none"} :
         \E invoked \in Traversals(receive_callbacks, fault) :
           \* no observer is reached unless the frame carries a payload
           /\ ~Dispatched(got.item.frame) => fault = "none"
           /\ LET s == unqueue_frame(State(0, TRUE), got.item, invoked, fault)
              IN  /\ Commit(s)
                  /\ queue' = got.rest
                  /\ handled' = IF s.passed THEN Append(handled, got.item.n)
                                            ELSE handled
                  /\ main_pc' = IF s.raised THEN "idle" ELSE "unqueue"
                  /\ uq' = IF s.raised THEN UqIdle
                           ELSE IF Decoded(got.item.frame)
                                  THEN [uq EXCEPT !.wait = "None",
                                                  !.elapsed = 0]
                                  ELSE uq
  /\ UNCHANGED << received, pump_pc, tcVars >>

UqTake == UqDispatch /\ UNCHANGED editorVars

\* one iteration of unqueue's loop that takes a frame
UnqueueGet ==
  /\ main_pc = "unqueue"
  /\ UqLoops
  /\ queue # << >>
  /\ UqTake

\* The same loop statement by statement, the pump thread running in between.
\* main_pc is "unqueue" at the while condition, "body" at the if, "get" at
\* self.queue.get(False).

\* the while condition holds
UnqueueTest ==
  /\ main_pc = "unqueue"
  /\ UqLoops
  /\ main_pc' = "body"
  /\ UNCHANGED << clientVars, queueVars, pump_pc, raised, uq, tcVars,
                  editorVars >>

\* `if wait and self.queue.empty():` time.sleep(0.25); now = time.time()
\* `else:` on to the get
UnqueueBranch ==
  /\ main_pc = "body"
  /\ IF uq.wait = "True" /\ queue = << >>
       THEN /\ main_pc' = "unqueue"
            /\ \E e \in (uq.elapsed + 1)..TimeoutTicks :
                 uq' = [uq EXCEPT !.elapsed = e]
       ELSE /\ main_pc' = "get"
            /\ uq' = uq
  /\ UNCHANGED << clientVars, queueVars, pump_pc, raised, tcVars, editorVars >>

\* self.queue.get(False): queue.Empty leaves unqueue when nothing is queued
UnqueueTake ==
  /\ main_pc = "get"
  /\ IF queue = << >>
       THEN /\ raised' = TRUE
            /\ main_pc' = "idle"
            /\ uq' = UqIdle
            /\ UNCHANGED << clientVars, queueVars, pump_pc, tcVars,
                            editorVars >>
       ELSE UqTake

\* one iteration that finds the queue empty while waiting:
\* time.sleep(0.25); now = time.time()
UnqueueSleep ==
  /\ main_pc = "unqueue"
  /\ UqLoops
  /\ uq.wait = "True" /\ queue = << >>
  /\ \E e \in (uq.elapsed + 1)..TimeoutTicks : uq' = [uq EXCEPT !.elapsed = e]
  /\ UNCHANGED << clientVars, queueVars, pump_pc, main_pc, raised, tcVars, editorVars >>

\* unqueue's loop ends and its caller finishes: complete_func returns
\* `self.suggestions or []`, then clears suggestions and completion_started
UqReturn ==
  /\ main_pc = "unqueue"
  /\ ~UqLoops
  /\ main_pc' = "idle"
  /\ uq' = UqIdle
  /\ LET s == State(0, TRUE)
     IN  Commit(IF uq.caller = "complete_func"
                  THEN [s EXCEPT !.suggestions = << >>,
                                 !.completion_started = FALSE]
                  ELSE s)
  /\ UNCHANGED << queueVars, pump_pc, tcVars >>

UnqueueReturn == UqReturn /\ UNCHANGED editorVars

\* on_receive(name, callback), through Ensime.on_receive
OnReceive ==
  /\ main_pc = "idle"
  /\ running
  /\ \E name \in ObserverNames :
       Commit([State(0, TRUE) EXCEPT !.receive_callbacks = @ \cup {name}])
  /\ UNCHANGED << queueVars, pump_pc, main_pc, uq, tcVars, editorVars >>

\* doc_uri and doc_browse: doc_browse stores {"browse": True} under the
\* call id the request is about to get
doc_uri(s) == send_request(s, "DocUriAtPointReq")

doc_browse(s) ==
  doc_uri([s EXCEPT !.call_options = Stored(@, s.call_id, "browse")])

DocUri ==
  /\ main_pc = "idle"
  /\ running
  /\ Cardinality({ i \in 1..Len(assigned) :
                     assigned[i].req = "DocUriAtPointReq" }) < MaxDocRequests
  /\ \E browse \in BOOLEAN :
       Commit(IF browse THEN doc_browse(State(0, TRUE))
                        ELSE doc_uri(State(0, TRUE)))
  /\ UNCHANGED << queueVars, pump_pc, main_pc, uq, tcVars, editorVars >>

\* symbol_by_name([fqn]) as open_decl_for_inspector_symbol calls it
symbol_by_name(s) ==
  send_request([s EXCEPT !.call_options =
                           Stored(@, s.call_id, "open_definition")],
               "SymbolByNameReq")

\* open_decl_for_inspector_symbol: symbol_by_name, then
\* self.unqueue(should_wait=True)
OpenDeclForInspectorSymbol ==
  /\ main_pc = "idle"
  /\ running
  /\ call_id < MaxRequests
  /\ LET s == symbol_by_name(State(0, TRUE))
     IN  /\ Commit(s)
         /\ main_pc' = IF s.raised THEN "idle" ELSE "unqueue"
         /\ uq' = IF s.raised THEN UqIdle
                  ELSE UqEnter(TRUE, "open_decl_for_inspector_symbol")
  /\ UNCHANGED << queueVars, pump_pc, tcVars, editorVars >>

\* complete_func(findstart, base): the first invocation sends the request,
\* the second one unqueues until the suggestions are there
complete_func(findstart) ==
  /\ main_pc = "idle"
  /\ running
  /\ IF findstart = 1
       THEN /\ call_id < MaxRequests
            /\ LET s == send_request(State(0, TRUE), "CompletionsReq")
               IN  Commit(IF s.raised THEN s
                          ELSE [s EXCEPT !.completion_started = TRUE])
            /\ UNCHANGED << main_pc, uq >>
       ELSE IF completion_started
              THEN /\ Commit(vim_command(State(0, TRUE),
                                         "until_first_char_word"))
                   /\ main_pc' = "unqueue"
                   /\ uq' = UqEnter(TRUE, "complete_func")
              \* result = [] is returned as it is
              ELSE /\ Commit(State(0, TRUE))
                   /\ UNCHANGED << main_pc, uq >>
  /\ UNCHANGED << queueVars, pump_pc, tcVars >>

CompleteFunc ==
  /\ \E findstart \in {1, 0} : complete_func(findstart)
  /\ UNCHANGED editorVars

\* The pump thread, queue_poll.

\* a loop that tests the connection only
PumpLoop_ignores_running ==
  /\ pump_pc = "loop"
  /\ ws # None /\ pump_pc' = "recv"
  /\ UNCHANGED << clientVars, queueVars, main_pc, raised, uq, tcVars, editorVars >>

\* `while self.running:` and `if self.ws:`
PumpLoop ==
  /\ pump_pc = "loop"
  /\ \/ ~running /\ pump_pc' = "exited"
     \/ running /\ ws # None /\ pump_pc' = "recv"
  /\ UNCHANGED << clientVars, queueVars, main_pc, raised, uq, tcVars, editorVars >>

\* result = self.ws.recv(); self.queue.put(result)
PumpRecv ==
  /\ pump_pc = "recv"
  /\ Len(received) < MaxFrames
  /\ \E frame \in Frames :
       /\ received' = Append(received, frame)
       /\ queue' = queue_put(queue, [n |-> Len(received) + 1, frame |-> frame])
  /\ pump_pc' = "loop"
  /\ UNCHANGED << clientVars, handled, main_pc, raised, uq, tcVars, editorVars >>

\* self.ws.recv() raises: logger_and_close runs on the pump thread
PumpRecvFail ==
  /\ pump_pc = "recv"
  /\ \E threadsafe \in BOOLEAN :
       LET s == logger_and_close([State(0, TRUE) EXCEPT
                                    !.thread = "pump",
                                    !.threadsafe = threadsafe])
       IN  /\ s.n_disable_plugin = n_disable_plugin => threadsafe
           /\ Commit([s EXCEPT !.raised = raised])
  /\ pump_pc' = "loop"
  /\ UNCHANGED << queueVars, main_pc, uq, tcVars, editorVars >>

Next ==
  \/ Setup
  \/ SendRequest
  \/ Teardown
  \/ UnqueueAndDisplay
  \/ UnqueueGet
  \/ UnqueueReturn
  \/ PumpLoop
  \/ PumpRecv
  \/ PumpRecvFail

Spec == Init /\ [][Next]_vars

\* The connection lifecycle alone: setup, requests, teardown and the pump,
\* the queue being left undrained.
NextSetup ==
  \/ Setup
  \/ SendRequest
  \/ Teardown
  \/ PumpLoop
  \/ PumpRecv
  \/ PumpRecvFail

SpecSetup == Init /\ [][NextSetup]_vars

\* a reply, or an envelope without payload, arrives
PumpRecvReply ==
  /\ pump_pc = "recv"
  /\ Len(received) < MaxFrames
  /\ \E frame \in DrainFrames \ Frames :
       /\ received' = Append(received, frame)
       /\ queue' = queue_put(queue, [n |-> Len(received) + 1, frame |-> frame])
  /\ pump_pc' = "loop"
  /\ UNCHANGED << clientVars, handled, main_pc, raised, uq, tcVars, editorVars >>

\* The engine with the drain in detail: observers, replies, and a request
\* that stores call options.  It starts where a successful setup() leaves
\* the client: connected, ConnectionInfoReq sent.
InitDrain ==
  /\ running = TRUE
  /\ ws = 1
  /\ ensime = TRUE
  /\ websocket_exists = TRUE
  /\ number_try_connection = 0
  /\ call_id = 1
  /\ toggle_teardown = TRUE
  /\ queue = << >>
  /\ pump_pc = "loop"
  /\ main_pc = "idle"
  /\ received = << >>
  /\ handled = << >>
  /\ assigned = << [ret |-> 0, env |-> 0, req |-> "ConnectionInfoReq"] >>
  /\ wire = << [callId |-> 0, req |-> "ConnectionInfoReq"] >>
  /\ n_write = 1
  /\ n_create = 1
  /\ n_disable_completely = 0
  /\ n_disable_plugin = 0
  /\ n_stop = 0
  /\ raised = FALSE
  /\ call_options = << >>
  /\ receive_callbacks = {}
  /\ completion_started = FALSE
  /\ uq = UqIdle
  /\ observed = << >>
  /\ ran = << >>
  /\ messages = << >>
  /\ n_unhandled = 0
  /\ pump_vim = {}
  /\ vim_commands = << >>
  /\ en_format_source_id = None
  /\ buffer_overwrites = << >>
  /\ refactor_id = 1
  /\ refactorings = << >>
  /\ current_path = "A.scala"
  /\ patched = << >>
  /\ suggestions = << >>
  /\ currently_buffering_typechecks = FALSE
  /\ buffered_notes = << >>
  /\ display_notes = << >>
  /\ tc_history = << >>
  /\ tc_reported = << >>
  /\ tc_raised = FALSE
  /\ menu_call = NoMenuCall
  /\ clients = << >>
  /\ constructed = << >>
  /\ drains = << >>
  /\ completes = << >>

NextDrain ==
  \/ OnReceive
  \/ DocUri
  \/ UnqueueAndDisplay
  \/ UnqueueGet
  \/ UnqueueReturn
  \/ PumpLoop
  \/ PumpRecv
  \/ PumpRecvReply

SpecDrain == InitDrain /\ [][NextDrain]_vars

\* The engine with the callers of unqueue that wait.
NextWait ==
  \/ OpenDeclForInspectorSymbol
  \/ CompleteFunc
  \/ UnqueueAndDisplay
  \/ UnqueueGet
  \/ UnqueueSleep
  \/ UnqueueReturn
  \/ PumpLoop
  \/ PumpRecv

SpecWait == InitDrain /\ [][NextWait]_vars

\* The callers that pass should_wait=True alone, each unqueue call finding
\* what the pump queued since the one before.
NextWaiting ==
  \/ OpenDeclForInspectorSymbol
  \/ CompleteFunc
  \/ UnqueueGet
  \/ UnqueueSleep
  \/ UnqueueReturn
  \/ PumpLoop
  \/ PumpRecv

\* The caller's thread is scheduled: a running unqueue takes its next step.
FairSpecWait ==
  /\ InitDrain
  /\ [][NextWaiting]_vars
  /\ WF_vars(UnqueueGet \/ UnqueueSleep \/ UnqueueReturn)

\* The callers of unqueue with both should_wait settings, the loop statement
\* by statement, and the pump thread.
NextRace ==
  \/ OpenDeclForInspectorSymbol
  \/ UnqueueAndDisplay
  \/ UnqueueTest
  \/ UnqueueBranch
  \/ UnqueueTake
  \/ UnqueueReturn
  \/ PumpLoop
  \/ PumpRecv

SpecRace == InitDrain /\ [][NextRace]_vars

\* how many frames arrive where unqueue may raise
MaxAbortFrames == 3

\* how many unqueue_and_display calls drains follows
MaxDrains == 3

\* Frames on which unqueue raises (a text that is not JSON, an envelope
\* without payload, a reply whose handler finds no stored options) and an
\* event it handles.
AbortFrames ==
  { [raw |-> "garbage", callId |-> NoCallId, payload |-> "null"],
    [raw |-> "json", callId |-> 1, payload |-> "absent"],
    [raw |-> "json", callId |-> 1, payload |-> "StringResponse"],
    [raw |-> "json", callId |-> NoCallId, payload |-> "AnalyzerReadyEvent"] }

\* the arrival numbers of the queued frames, in the queue's order
Numbers(q) == [k \in 1..Len(q) |-> q[k].n]

PumpRecvAbort ==
  /\ pump_pc = "recv"
  /\ Len(received) < MaxAbortFrames
  /\ \E frame \in AbortFrames :
       /\ received' = Append(received, frame)
       /\ queue' = queue_put(queue, [n |-> Len(received) + 1, frame |-> frame])
  /\ pump_pc' = "loop"
  /\ UNCHANGED << clientVars, handled, main_pc, raised, uq, tcVars, editorVars >>

\* unqueue_and_display, a new entry of drains
DrainEnter ==
  /\ main_pc = "idle"
  /\ running /\ ws # None
  /\ Len(drains) < MaxDrains
  /\ main_pc' = "unqueue"
  /\ uq' = UqEnter(FALSE, "unqueue_and_display")
  /\ raised' = FALSE
  /\ drains' = Append(drains, [taken |-> << >>, raised |-> FALSE,
                               behind |-> << >>])
  /\ UNCHANGED << clientVars, queueVars, pump_pc, tcVars, menu_call,
                  pluginVars, completes >>

\* one iteration of its loop that takes a frame, noted in drains
DrainTake ==
  /\ main_pc = "unqueue"
  /\ UqLoops
  /\ queue # << >>
  /\ UqDispatch
  /\ drains' = [drains EXCEPT ![Len(drains)] =
                  [taken |-> Append(@.taken, queue_get(queue).item.n),
                   raised |-> raised',
                   behind |-> IF raised' THEN Numbers(queue') ELSE << >>]]
  /\ UNCHANGED << menu_call, pluginVars, completes >>

\* unqueue_and_display calls on a queue where frames make unqueue raise
NextAbort ==
  \/ DrainEnter
  \/ DrainTake
  \/ UnqueueReturn
  \/ PumpLoop
  \/ PumpRecvAbort

SpecAbort == InitDrain /\ [][NextAbort]_vars

\* how many complete_func calls completes follows
MaxCompletes == 3

\* The replies to the CompletionsReq requests sent, and an event.
CompletionFrames ==
  { [raw |-> "json", callId |-> k, payload |-> "CompletionInfoList"] :
      k \in { wire[i].callId : i \in { j \in 1..Len(wire) :
                                         wire[j].req = "CompletionsReq" } } }
  \cup { [raw |-> "json", callId |-> NoCallId,
          payload |-> "AnalyzerReadyEvent"] }

PumpRecvCompletion ==
  /\ pump_pc = "recv"
  /\ Len(received) < MaxFrames
  /\ \E frame \in CompletionFrames :
       /\ \A i \in 1..Len(received) : received[i] # frame
       /\ received' = Append(received, frame)
       /\ queue' = queue_put(queue, [n |-> Len(received) + 1, frame |-> frame])
  /\ pump_pc' = "loop"
  /\ UNCHANGED << clientVars, handled, main_pc, raised, uq, tcVars, editorVars >>

\* what the complete_func call under way leaves in self.suggestions and
\* self.completion_started
Leaves(c) ==
  [c EXCEPT !.suggestions = suggestions',
            !.completion_started = completion_started']

\* complete_func(findstart, base), a new entry of completes
CompleteCall ==
  /\ Len(completes) < MaxCompletes
  /\ \E findstart \in {1, 0} :
       /\ complete_func(findstart)
       /\ completes' =
            Append(completes,
                   Leaves([findstart |-> findstart,
                           started |-> completion_started,
                           taken |-> 0,
                           ended |-> (main_pc' = "idle"),
                           result |-> << >>,
                           suggestions |-> << >>,
                           completion_started |-> FALSE]))
  /\ UNCHANGED << menu_call, pluginVars, drains >>

\* one iteration of unqueue's loop that takes a frame, noted in completes
\* when complete_func is the caller
CompleteTake ==
  /\ main_pc = "unqueue"
  /\ UqLoops
  /\ queue # << >>
  /\ UqDispatch
  /\ completes' =
       IF uq.caller = "complete_func"
         THEN [completes EXCEPT ![Len(completes)] =
                 Leaves([@ EXCEPT !.taken = @ + 1, !.ended = raised'])]
         ELSE completes
  /\ UNCHANGED << menu_call, pluginVars, drains >>

\* unqueue's loop ends; complete_func returns `self.suggestions or []`
CompleteReturn ==
  /\ UqReturn
  /\ completes' =
       IF uq.caller = "complete_func"
         THEN [completes EXCEPT ![Len(completes)] =
                 Leaves([@ EXCEPT !.ended = TRUE, !.result = suggestions])]
         ELSE completes
  /\ UNCHANGED << menu_call, pluginVars, drains >>

\* Omni completion: complete_func in both phases, unqueue_and_display on the
\* editor's events in between, and the pump thread.
NextComplete ==
  \/ CompleteCall
  \/ UnqueueAndDisplay
  \/ CompleteTake
  \/ UnqueueSleep
  \/ CompleteReturn
  \/ PumpLoop
  \/ PumpRecvCompletion

SpecComplete == InitDrain /\ [][NextComplete]_vars

\* The same engine with its shutdown: teardown from the caller's thread
\* and from the pump's failure handler.
NextShutdown ==
  \/ Teardown
  \/ OpenDeclForInspectorSymbol
  \/ CompleteFunc
  \/ UnqueueAndDisplay
  \/ UnqueueGet
  \/ UnqueueSleep
  \/ UnqueueReturn
  \/ PumpLoop
  \/ PumpRecv
  \/ PumpRecvFail

SpecShutdown == InitDrain /\ [][NextShutdown]_vars

\* open_declaration and symbol: symbol_at_point_req(open_definition, display)
\* stores the options under the call id the request is about to get
symbol_at_point_req(s, opts) ==
  send_request([s EXCEPT !.call_options = Stored(@, s.call_id, opts)],
               "SymbolAtPointReq")

SymbolAtPoint ==
  /\ main_pc = "idle"
  /\ running
  /\ call_id < MaxSymbolRequests + 1
  /\ \E opts \in {"open_definition", "display"} :
       Commit(symbol_at_point_req(State(0, TRUE), opts))
  /\ UNCHANGED << queueVars, pump_pc, main_pc, uq, tcVars, editorVars >>

\* a SymbolInfo or RefactorDiffEffect reply arrives
PumpRecvHandled ==
  /\ pump_pc = "recv"
  /\ Len(received) < MaxFrames
  /\ \E frame \in HandlerFrames :
       /\ received' = Append(received, frame)
       /\ queue' = queue_put(queue, [n |-> Len(received) + 1, frame |-> frame])
  /\ pump_pc' = "loop"
  /\ UNCHANGED << clientVars, handled, main_pc, raised, uq, tcVars, editorVars >>

\* The replies that make the handlers drive the editor, drained by
\* unqueue_and_display.
NextHandlers ==
  \/ SymbolAtPoint
  \/ UnqueueAndDisplay
  \/ UnqueueGet
  \/ UnqueueReturn
  \/ PumpLoop
  \/ PumpRecvHandled

SpecHandlers == InitDrain /\ [][NextHandlers]_vars

\* send_refactor_request: the file of the request is recorded under
\* self.refactor_id, which then goes up by one, and the request is sent
send_refactor_request(s, f) ==
  send_request([s EXCEPT !.refactorings = Append(@, f),
                         !.refactor_id = @ + 1],
               "RefactorReq")

\* organize_imports: write_file, current_file = self.path(), the request
organize_imports(s) ==
  LET s1 == vim_command(s, "write_file")
  IN  send_refactor_request(s1, s1.current_path)

OrganizeImports ==
  /\ main_pc = "idle"
  /\ running
  /\ refactor_id <= MaxRefactors
  /\ Commit(organize_imports(State(0, TRUE)))
  /\ UNCHANGED << queueVars, pump_pc, main_pc, uq, tcVars, editorVars >>

\* the user moves to another buffer: self.path() reads vim.current.buffer
SwitchBuffer ==
  /\ main_pc = "idle"
  /\ \E f \in Paths \ {current_path} :
       Commit([State(0, TRUE) EXCEPT !.current_path = f])
  /\ UNCHANGED << queueVars, pump_pc, main_pc, uq, tcVars, editorVars >>

\* the reply to a refactor request that was sent arrives
PumpRecvRefactor ==
  /\ pump_pc = "recv"
  /\ Len(received) < MaxFrames
  /\ \E frame \in RefactorFrames :
       /\ frame.body.procedureId \in DOMAIN refactorings
       /\ \A i \in 1..Len(received) : received[i] # frame
       /\ received' = Append(received, frame)
       /\ queue' = queue_put(queue, [n |-> Len(received) + 1, frame |-> frame])
  /\ pump_pc' = "loop"
  /\ UNCHANGED << clientVars, handled, main_pc, raised, uq, tcVars, editorVars >>

\* Refactor requests, the user moving between buffers, and the replies
\* drained by unqueue_and_display.
NextRefactor ==
  \/ OrganizeImports
  \/ SwitchBuffer
  \/ UnqueueAndDisplay
  \/ UnqueueGet
  \/ UnqueueReturn
  \/ PumpLoop
  \/ PumpRecvRefactor

SpecRefactor == InitDrain /\ [][NextRefactor]_vars

\* format_source: self.en_format_source_id = self.send_request(req)
format_source(s) ==
  LET s1 == send_request(s, "FormatOneSourceReq")
  IN  IF s1.raised THEN s1
      ELSE [s1 EXCEPT !.en_format_source_id =
                        s1.assigned[Len(s1.assigned)].ret]

FormatSource ==
  /\ main_pc = "idle"
  /\ running
  /\ call_id < MaxRequests
  /\ Commit(format_source(State(0, TRUE)))
  /\ UNCHANGED << queueVars, pump_pc, main_pc, uq, tcVars, editorVars >>

\* the StringResponse replies to the requests with the ids 1 and 2
StringFrames ==
  { [raw |-> "json", callId |-> c, payload |-> "StringResponse"] :
      c \in 1..2 }

PumpRecvString ==
  /\ pump_pc = "recv"
  /\ Len(received) < MaxFrames
  /\ \E frame \in StringFrames :
       /\ received' = Append(received, frame)
       /\ queue' = queue_put(queue, [n |-> Len(received) + 1, frame |-> frame])
  /\ pump_pc' = "loop"
  /\ UNCHANGED << clientVars, handled, main_pc, raised, uq, tcVars,
                  editorVars >>

\* The two requests answered by a StringResponse, doc_uri and format_source,
\* and their replies.
NextFormat ==
  \/ DocUri
  \/ FormatSource
  \/ UnqueueAndDisplay
  \/ UnqueueGet
  \/ UnqueueReturn
  \/ PumpLoop
  \/ PumpRecvString

SpecFormat == InitDrain /\ [][NextFormat]_vars

\* do_toggle_teardown, the EnToggleTeardown command
DoToggleTeardown ==
  /\ main_pc = "idle"
  /\ running
  /\ Commit([State(0, TRUE) EXCEPT !.toggle_teardown = ~@])
  /\ UNCHANGED << queueVars, pump_pc, main_pc, uq, tcVars, editorVars >>

\* The pump thread next to a caller that drains and tears down.
NextPump ==
  \/ Teardown
  \/ DoToggleTeardown
  \/ UnqueueAndDisplay
  \/ UnqueueGet
  \/ UnqueueReturn
  \/ PumpLoop
  \/ PumpRecv
  \/ PumpRecvFail

SpecPump == InitDrain /\ [][NextPump]_vars

\* The pump thread is scheduled: it gets to test its loop condition.
FairSpecPump == SpecPump /\ WF_vars(PumpLoop)

\* a running unqueue call comes back to its caller
UnqueueComesBack == (main_pc = "unqueue") ~> (main_pc = "idle")

\* ------------------------------------------- properties of the engine
\* ws.send() calls of this step that raised
SendFailures == (n_write' - n_write) - (Len(wire') - Len(wire))

\* the pump's ws.recv() raised in this step
RecvFailed == pump_pc = "recv" /\ pump_pc' = "loop" /\ received' = received

\* arrival numbers 1..k of the frames unqueue passes on, in arrival order
RECURSIVE DispatchedUpTo(_)
DispatchedUpTo(k) ==
  IF k = 0 THEN << >>
  ELSE IF Dispatched(received[k])
         THEN Append(DispatchedUpTo(k - 1), k)
         ELSE DispatchedUpTo(k - 1)

Dequeued == Len(received) - Len(queue)

\* C1: the ids send_request returns are 0, 1, ..., N-1 in call order, the
\* i-th returned id is the callId of the envelope built for the i-th request
\* (the ConnectionInfoReq of connect included), and no two envelopes on the
\* wire carry the same callId.
C1_CallIdsSequential ==
  /\ Len(assigned) = call_id
  /\ \A i \in 1..Len(assigned) :
       assigned[i].ret = i - 1 /\ assigned[i].env = assigned[i].ret
  /\ \A i \in 1..Len(wire) :
       /\ \E j \in 1..Len(assigned) :
            assigned[j].ret = wire[i].callId /\ assigned[j].req = wire[i].req
       /\ \A j \in 1..Len(wire) : i < j => wire[i].callId < wire[j].callId

\* three requests got ids, the first being the client's own ConnectionInfoReq,
\* and a transport failure happened on the way
C1_Witness ==
  /\ Len(assigned) >= 3
  /\ assigned[1].req = "ConnectionInfoReq"
  /\ assigned[2].req = "TypecheckFilesReq"
  /\ n_write > Len(wire)

\* C2: whatever the interleaving of the pump and the caller, the frames passed
\* to handle_incoming_response are, in arrival order and each once, exactly
\* the dispatchable frames among those taken off the queue, and the queue
\* holds the remaining arrivals in arrival order.
C2_FifoHandling ==
  /\ Dequeued >= 0
  /\ handled = DispatchedUpTo(Dequeued)
  /\ queue = [i \in 1..Len(queue) |->
                [n |-> Dequeued + i, frame |-> received[Dequeued + i]]]

\* two frames of different typehints were handled, over two unqueue calls
C2_Witness ==
  /\ handled = << 1, 2 >>
  /\ received[1].payload = "UnknownEvent"
  /\ received[2].payload = "AnalyzerReadyEvent"
  /\ main_pc = "idle"

C4_ExhaustedFailureDisables ==
  /\ [](n_create <= 2)
  /\ [][ ( /\ running
           /\ number_try_connection = 0
           /\ (SendFailures > 0 \/ RecvFailed) )
         => /\ n_disable_plugin' > n_disable_plugin
            /\ n_create' = n_create ]_vars

\* both failure paths were taken: a send failed, then the pump's receive
C4_Witness ==
  /\ n_disable_completely > 0
  /\ n_disable_plugin > n_disable_completely
  /\ n_write > Len(wire)
  /\ ~running

\* C6: send_request writes to the connection if and only if the engine is
\* running and has a connection; the envelope written carries the current
\* call id; otherwise nothing is written, no connection is attempted and
\* nothing is disabled or stopped.
C6_SendIffRunningAndConnected ==
  [][ SendRequest
        => /\ (n_write' > n_write) <=> (running /\ ws # None)
           /\ Len(wire') > Len(wire)
                => wire'[Len(wire')].callId = call_id
           /\ ~(running /\ ws # None)
                => /\ wire' = wire
                   /\ n_create' = n_create
                   /\ n_disable_completely' = n_disable_completely
                   /\ n_disable_plugin' = n_disable_plugin
                   /\ n_stop' = n_stop
                   /\ running' = running /\ ws' = ws ]_vars

\* no write ever failed, the connection exists, the engine was stopped, and
\* the last request got an id but is not on the wire
C6_Witness ==
  /\ ~running /\ ws # None
  /\ n_write = Len(wire) /\ Len(wire) >= 1
  /\ assigned # << >>
  /\ assigned[Len(assigned)].env > wire[Len(wire)].callId

\* C5 as stated: once disable_completely has run, a send_request writes nothing
\* to the connection, attempts no connection and disables nothing.
C5_DisabledSendIsNoop ==
  [][ (n_disable_completely > 0 /\ SendRequest)
        => /\ n_write' = n_write
           /\ n_create' = n_create
           /\ n_disable_completely' = n_disable_completely
           /\ n_disable_plugin' = n_disable_plugin ]_vars

\* ------------------------------------ TypecheckHandler and ProtocolHandler
\* payload['notes'] of the NewScalaNotesEvent frames explored
NotesPayloads == { << >>, << "a" >>, << "b", "c" >> }

TcPayloads ==
  { [typehint |-> "NewScalaNotesEvent", notes |-> ns] : ns \in NotesPayloads }
  \cup { [typehint |-> h, notes |-> << >>] :
           h \in {"FullTypeCheckCompleteEvent", "StringResponse",
                  "UnknownEvent"} }

Tc ==
  [ currently_buffering_typechecks |-> currently_buffering_typechecks,
    buffered_notes |-> buffered_notes,
    display_notes |-> display_notes,
    reported |-> tc_reported, raised |-> FALSE ]

CommitTc(t) ==
  /\ currently_buffering_typechecks' = t.currently_buffering_typechecks
  /\ buffered_notes' = t.buffered_notes
  /\ display_notes' = t.display_notes
  /\ tc_reported' = t.reported
  /\ tc_raised' = t.raised

\* buffer_typechecks putting the new notes in front
buffer_typechecks_prepend(t, cid, payload) ==
  IF t.currently_buffering_typechecks
    THEN [t EXCEPT !.buffered_notes = payload.notes \o @]
    ELSE t

\* buffer_typechecks without the test of currently_buffering_typechecks
buffer_typechecks_always(t, cid, payload) ==
  [t EXCEPT !.buffered_notes = @ \o payload.notes]

buffer_typechecks(t, cid, payload) ==
  IF t.currently_buffering_typechecks
    THEN [t EXCEPT !.buffered_notes = @ \o payload.notes]
    ELSE t

\* start_typechecking that clears only when it was not buffering yet
start_typechecking_keep(t) ==
  IF t.currently_buffering_typechecks
    THEN t
    ELSE [t EXCEPT !.currently_buffering_typechecks = TRUE,
                   !.buffered_notes = << >>]

start_typechecking(t) ==
  LET t1 == [t EXCEPT !.currently_buffering_typechecks = TRUE]
  IN  IF t1.currently_buffering_typechecks
        THEN [t1 EXCEPT !.buffered_notes = << >>]
        ELSE t1

\* handle_typecheck_complete without its early return
handle_typecheck_complete_always(t, cid, payload) ==
  [t EXCEPT !.display_notes = Append(@, t.buffered_notes),
            !.currently_buffering_typechecks = FALSE,
            !.buffered_notes = << >>]

handle_typecheck_complete(t, cid, payload) ==
  IF ~t.currently_buffering_typechecks THEN t
  ELSE [t EXCEPT !.display_notes = Append(@, t.buffered_notes),
                 !.currently_buffering_typechecks = FALSE,
                 !.buffered_notes = << >>]

\* self.handlers of ProtocolHandler.register_responses_handlers
protocol_handlers ==
  { "SymbolInfo", "IndexerReadyEvent", "AnalyzerReadyEvent",
    "NewScalaNotesEvent", "BasicTypeInfo", "ArrowTypeInfo",
    "FullTypeCheckCompleteEvent", "StringResponse", "CompletionInfoList",
    "TypeInspectInfo", "SymbolSearchResults", "DebugOutputEvent",
    "DebugBreakEvent", "DebugBacktrace", "DebugVmError", "RefactorDiffEffect",
    "ImportSuggestions", "PackageInfo" }

\* the handlers ProtocolHandler leaves abstract: `raise NotImplementedError()`
abstract_handlers ==
  { "IndexerReadyEvent", "AnalyzerReadyEvent", "DebugVmError",
    "ImportSuggestions", "PackageInfo", "SymbolSearchResults", "SymbolInfo",
    "StringResponse", "CompletionInfoList", "TypeInspectInfo",
    "BasicTypeInfo", "ArrowTypeInfo" }

\* the handler looked up for the typehint, run: the TypecheckHandler's own
\* two, an abstract one when the class in use does not implement it
\* (`implemented` false), or an implemented one, whose effects are outside
\* the TypecheckHandler
protocol_handler(t, cid, payload, implemented) ==
  CASE payload.typehint = "NewScalaNotesEvent" ->
         buffer_typechecks(t, cid, payload)
    [] payload.typehint = "FullTypeCheckCompleteEvent" ->
         handle_typecheck_complete(t, cid, payload)
    [] payload.typehint \in abstract_handlers /\ ~implemented ->
         [t EXCEPT !.raised = TRUE]
    [] OTHER -> t

\* feature_not_supported(m): raw_message(feedback["handler_not_implemented"])
feature_not_supported(t, typehint) ==
  [t EXCEPT !.reported = Append(@, typehint)]

\* handle_incoming_response without the catch around the handler
protocol_handle_incoming_response_uncaught(t, cid, payload, implemented) ==
  IF payload.typehint \in protocol_handlers
    THEN protocol_handler(t, cid, payload, implemented)
    ELSE t

\* ProtocolHandler.handle_incoming_response:
\* with catch(NotImplementedError, feature_not_supported): handler(...)
protocol_handle_incoming_response(t, cid, payload, implemented) ==
  IF payload.typehint \in protocol_handlers
    THEN LET t1 == protocol_handler(t, cid, payload, implemented)
         IN  IF t1.raised
               THEN feature_not_supported([t1 EXCEPT !.raised = FALSE],
                                          payload.typehint)
               ELSE t1
    ELSE t

StartTypechecking ==
  /\ Len(tc_history) < MaxEvents
  /\ CommitTc(start_typechecking(Tc))
  /\ tc_history' = Append(tc_history, [typehint |-> "begin", notes |-> << >>,
                                       implemented |-> TRUE])
  /\ UNCHANGED << clientVars, queueVars, pump_pc, main_pc, raised, uq, editorVars >>

\* handle_incoming_response(call_id, payload) of a ProtocolHandler whose
\* class implements the handler of the typehint or leaves it abstract
HandleIncomingResponse ==
  /\ Len(tc_history) < MaxEvents
  /\ \E payload \in TcPayloads, implemented \in BOOLEAN :
       \* the choice matters for the abstract handlers only
       /\ payload.typehint \notin abstract_handlers => implemented
       /\ CommitTc(protocol_handle_incoming_response(Tc, None, payload,
                                                     implemented))
       /\ tc_history' = Append(tc_history,
                               [typehint |-> payload.typehint,
                                notes |-> payload.notes,
                                implemented |-> implemented])
  /\ UNCHANGED << clientVars, queueVars, pump_pc, main_pc, raised, uq, editorVars >>

NextTypecheck ==
  \/ StartTypechecking
  \/ HandleIncomingResponse

SpecTypecheck == Init /\ [][NextTypecheck]_vars

\* ------------------ the TypecheckHandler behind the engine's dispatch
\* The typecheck events as EnsimeClient receives them.
TypecheckFrames ==
  { [raw |-> "json", callId |-> NoCallId, payload |-> "NewScalaNotesEvent"],
    [raw |-> "json", callId |-> 1,
     payload |-> "FullTypeCheckCompleteEvent"] }

PumpRecvTypecheck ==
  /\ pump_pc = "recv"
  /\ Len(received) < MaxFrames
  /\ \E frame \in TypecheckFrames :
       /\ received' = Append(received, frame)
       /\ queue' = queue_put(queue, [n |-> Len(received) + 1, frame |-> frame])
  /\ pump_pc' = "loop"
  /\ UNCHANGED << clientVars, handled, main_pc, raised, uq, tcVars, editorVars >>

\* type_check(filename): send_request of a TypecheckFilesReq, clean_errors
type_check(s) == send_request(s, "TypecheckFilesReq")

TypeCheck ==
  /\ main_pc = "idle"
  /\ running
  /\ call_id < MaxRequests
  /\ Commit(type_check(State(0, TRUE)))
  /\ UNCHANGED << queueVars, pump_pc, main_pc, uq, tcVars, editorVars >>

\* start_typechecking on a client: buffering starts ahead of the request
BeginTypecheck ==
  /\ main_pc = "idle"
  /\ StartTypechecking

\* EnsimeClient sending the request and receiving the typecheck events; the
\* frames go through EnsimeClient.handle_incoming_response and its table.
NextTypecheckEngine ==
  \/ BeginTypecheck
  \/ TypeCheck
  \/ UnqueueAndDisplay
  \/ UnqueueGet
  \/ UnqueueReturn
  \/ PumpLoop
  \/ PumpRecvTypecheck

SpecTypecheckEngine == InitDrain /\ [][NextTypecheckEngine]_vars

\* ---------------------------------- properties of the TypecheckHandler
\* The operations applied so far, read from tc_history.
IsBegin(i) == tc_history[i].typehint = "begin"
IsNotes(i) == tc_history[i].typehint = "NewScalaNotesEvent"
IsComplete(i) == tc_history[i].typehint = "FullTypeCheckCompleteEvent"

Max0(S) == IF S = {} THEN 0 ELSE CHOOSE x \in S : \A y \in S : y <= x
LastBeginBefore(i) == Max0({ j \in 1..(i - 1) : IsBegin(j) })
LastCompleteBefore(i) == Max0({ j \in 1..(i - 1) : IsComplete(j) })

\* operation i found the handler Buffering: a begin since the last completion
BufferingAt(i) == LastBeginBefore(i) > LastCompleteBefore(i)

\* the notes of the NewScalaNotesEvent operations strictly between lo and hi
RECURSIVE NotesBetween(_, _)
NotesBetween(lo, hi) ==
  IF hi - 1 <= lo THEN << >>
  ELSE NotesBetween(lo, hi - 1)
         \o (IF IsNotes(hi - 1) THEN tc_history[hi - 1].notes ELSE << >>)

\* the completions that came after a begin, and their rank among them
Completions == { i \in 1..Len(tc_history) : IsComplete(i) /\ BufferingAt(i) }
Rank(i) == Cardinality({ j \in Completions : j <= i })

\* the operation of this step
Applied(hint) ==
  /\ Len(tc_history') = Len(tc_history) + 1
  /\ tc_history'[Len(tc_history')].typehint = hint

TcUnchanged ==
  UNCHANGED << currently_buffering_typechecks, buffered_notes, display_notes >>

\* C7: each completion that follows a begin hands display_notes one batch, and
\* the batch is the notes of the NewScalaNotesEvent frames received between
\* that begin (the latest one) and the completion, in arrival order, nothing
\* added and nothing missing.
C7_BatchIsNotesSinceBegin ==
  /\ Len(display_notes) = Cardinality(Completions)
  /\ \A i \in Completions :
       display_notes[Rank(i)] = NotesBetween(LastBeginBefore(i), i)

\* a batch of three notes from two frames, in arrival order
C7_Witness ==
  /\ Len(display_notes) = 1
  /\ display_notes[1] = << "a", "b", "c" >>
  /\ ~currently_buffering_typechecks

\* C8: a NewScalaNotesEvent received while Idle changes nothing, and an Idle
\* handler holds no notes, so such notes reach no later batch.
C8_IdleNotesDropped ==
  /\ [](~currently_buffering_typechecks => buffered_notes = << >>)
  /\ [][ (Applied("NewScalaNotesEvent") /\ ~currently_buffering_typechecks)
           => TcUnchanged ]_vars

\* notes arrived before the begin and after the completion; the batch holds
\* only the ones in between
C8_Witness ==
  /\ Len(tc_history) = 5
  /\ tc_history[1].notes = << "a" >>
  /\ IsBegin(2)
  /\ tc_history[3].notes = << "b", "c" >>
  /\ IsComplete(4)
  /\ tc_history[5].notes = << "a" >>
  /\ display_notes = << << "b", "c" >> >>
  /\ buffered_notes = << >>

\* C9: start_typechecking always leaves the handler Buffering with no notes,
\* whatever it held, and flushes nothing.
C9_BeginRestartsWindow ==
  [][ Applied("begin")
        => /\ currently_buffering_typechecks'
           /\ buffered_notes' = << >>
           /\ display_notes' = display_notes ]_vars

\* notes accumulated after a first begin are absent from the batch flushed
\* after a second begin
C9_Witness ==
  /\ Len(tc_history) = 5
  /\ IsBegin(1)
  /\ tc_history[2].notes = << "b", "c" >>
  /\ IsBegin(3)
  /\ tc_history[4].notes = << "a" >>
  /\ IsComplete(5)
  /\ display_notes = << << "a" >> >>

\* C10: a completion received while Idle calls display_notes zero times and
\* changes nothing; there are never more flushes than begins.
C10_NoFlushWithoutBegin ==
  /\ [](Len(display_notes)
          <= Cardinality({ i \in 1..Len(tc_history) : IsBegin(i) }))
  /\ [][ ( /\ Applied("FullTypeCheckCompleteEvent")
           /\ ~currently_buffering_typechecks )
         => TcUnchanged ]_vars

\* completions before any begin and after a flush: one begin, one flush
C10_Witness ==
  /\ Len(tc_history) = 4
  /\ IsComplete(1)
  /\ IsBegin(2)
  /\ IsComplete(3)
  /\ IsComplete(4)
  /\ Len(display_notes) = 1

\* ------------------------ properties of the drain and of the dispatch
\* the frame that this step of unqueue took from the queue
Took == queue # << >> /\ queue' = Tail(queue)
TookFrame == Head(queue).frame

\* C11 as stated: with buffering started and a TypecheckFilesReq sent, the
\* FullTypeCheckCompleteEvent that the client takes from its queue flushes the
\* buffer: display_notes is called once and the handler is Idle and empty.
C11_CompletionFlushesOnce ==
  [][ ( /\ Took
        /\ TookFrame.payload = "FullTypeCheckCompleteEvent"
        /\ currently_buffering_typechecks
        /\ \E i \in 1..Len(wire) : wire[i].req = "TypecheckFilesReq" )
      => /\ Len(display_notes') = Len(display_notes) + 1
         /\ ~currently_buffering_typechecks'
         /\ buffered_notes' = << >> ]_vars

\* the connection and lifecycle fields of the client
ConnectionUnchanged ==
  UNCHANGED << running, ws, ensime, number_try_connection, n_write, n_create,
               n_disable_completely, n_disable_plugin, n_stop >>

\* C12 as stated: whatever a handler raises is caught at the dispatch
\* boundary: after a frame went to its handler, nothing has left unqueue and
\* the loop is still running for the frames queued behind.
C12_HandlerErrorsCaught ==
  [][ (Took /\ Len(ran') > Len(ran))
        => (~raised' /\ main_pc' = "unqueue") ]_vars

\* C13: a frame whose typehint has no handler, once passed to
\* handle_incoming_response, is logged and dropped: no handler runs, the call
\* options, the TypecheckHandler and the connection are as before, nothing
\* is raised and the loop goes on.
C13_UnhandledLoggedAndDropped ==
  [][ ( /\ Took
        /\ Len(handled') > Len(handled)
        /\ TookFrame.payload \notin handlers )
      => /\ n_unhandled' = n_unhandled + 1
         /\ ran' = ran
         /\ call_options' = call_options
         /\ messages' = messages
         /\ TcUnchanged
         /\ ConnectionUnchanged
         /\ ~raised'
         /\ main_pc' = "unqueue" ]_vars

\* one unqueue call dropped an unknown frame and then ran the handler of the
\* frame behind it, with call options pending
C13_Witness ==
  /\ main_pc = "unqueue"
  /\ handled = << 1, 2 >>
  /\ received[1].payload = "UnknownEvent"
  /\ n_unhandled = 1
  /\ Len(ran) = 1 /\ ran[1].n = 2
  /\ DOMAIN call_options # {}

\* C14: when the handler looked up for a frame raises NotImplementedError,
\* ProtocolHandler.handle_incoming_response reports the typehint to the user
\* as not supported by the server version, nothing is raised to the caller,
\* and the next frame is dispatched as usual.
C14_NotImplementedReported ==
  /\ [](~tc_raised)
  /\ [][ ( /\ Len(tc_history') = Len(tc_history) + 1
           /\ tc_history'[Len(tc_history')].typehint \in abstract_handlers
           /\ ~tc_history'[Len(tc_history')].implemented )
         => /\ tc_reported'
                 = Append(tc_reported, tc_history'[Len(tc_history')].typehint)
            /\ ~tc_raised'
            /\ TcUnchanged ]_vars
  /\ [][ ( /\ Len(tc_history') = Len(tc_history) + 1
           /\ tc_history'[Len(tc_history')].implemented )
         => tc_reported' = tc_reported ]_vars

\* an abstract StringResponse handler was reported in the middle of a
\* typecheck, whose notes were still flushed afterwards
C14_Witness ==
  /\ Len(tc_history) = 4
  /\ IsBegin(1)
  /\ tc_history[2].notes = << "a" >>
  /\ tc_history[3].typehint = "StringResponse"
  /\ ~tc_history[3].implemented
  /\ IsComplete(4)
  /\ tc_reported = << "StringResponse" >>
  /\ display_notes = << << "a" >> >>

\* C15 as stated: a decoded frame whose payload is null or absent is
\* discarded: no handler and no observer runs, nothing is raised, and the
\* loop goes on with the frames behind it.
C15_PayloadlessDiscarded ==
  [][ ( /\ Took
        /\ Decoded(TookFrame)
        /\ TookFrame.payload \in {"null", "absent"} )
      => /\ ran' = ran
         /\ observed' = observed
         /\ handled' = handled
         /\ ~raised'
         /\ main_pc' = "unqueue" ]_vars

\* C16: an AnalyzerReadyEvent frame without callId that reaches dispatch runs
\* the handler registered for the typehint, with the absent call id: the
\* ready message is shown, and call_options is neither needed nor changed.
C16_EventWithoutCallId ==
  [][ ( /\ Took
        /\ Len(handled') > Len(handled)
        /\ TookFrame.payload = "AnalyzerReadyEvent"
        /\ TookFrame.callId = NoCallId )
      => /\ ran' = Append(ran, [n |-> Head(queue).n,
                                typehint |-> "AnalyzerReadyEvent",
                                call_id |-> NoCallId])
         /\ messages' = Append(messages, "analyzer_ready")
         /\ call_options' = call_options
         /\ ~raised'
         /\ main_pc' = "unqueue" ]_vars

\* the ready event was handled while a call had options pending, which are
\* still there
C16_Witness ==
  /\ messages = << "analyzer_ready" >>
  /\ Len(ran) = 1
  /\ ran[1].call_id = NoCallId
  /\ DOMAIN call_options = {1}
  /\ call_options[1] = "browse"

\* a step of the caller's thread inside unqueue
UnqueueStep == main_pc = "unqueue" /\ (main_pc' # main_pc \/ uq' # uq \/ Took)

\* C17: unqueue called without should_wait never waits, and when it finds the
\* queue empty its next step is the return: no frame is taken, no handler or
\* observer runs and no field of the client changes.
C17_EmptyDrainReturns ==
  /\ [](main_pc = "unqueue" /\ ~uq.should_wait => uq.wait # "True")
  /\ [][ (UnqueueStep /\ ~uq.should_wait /\ queue = << >>)
           => /\ main_pc' = "idle"
              /\ UNCHANGED << clientVars, queueVars, raised, tcVars >> ]_vars

\* unqueue_and_display entered unqueue on an empty queue, frames having been
\* handled by an earlier call
C17_Witness ==
  /\ main_pc = "unqueue"
  /\ uq.caller = "unqueue_and_display"
  /\ ~uq.should_wait
  /\ queue = << >>
  /\ Len(handled) = 1

\* C18: unqueue called with should_wait on an empty queue waits; while it
\* waits it returns only once the timeout has elapsed, and it stops waiting
\* only by taking a frame that arrived, which it processes; every unqueue
\* call comes back to its caller.
C18_WaitsForFrameOrTimeout ==
  /\ [][ ( /\ main_pc = "idle" /\ main_pc' = "unqueue"
           /\ uq'.should_wait /\ queue = << >> )
         => uq'.wait = "True" ]_vars
  /\ [][ (main_pc = "unqueue" /\ uq.wait = "True" /\ main_pc' = "idle")
           => uq.elapsed >= TimeoutTicks ]_vars
  /\ [][ ( /\ main_pc = "unqueue" /\ uq.wait = "True"
           /\ main_pc' = "unqueue" /\ uq'.wait # "True" )
         => Took /\ Decoded(TookFrame) ]_vars
  /\ [][ ( /\ UnqueueStep /\ uq.wait = "True" /\ queue = << >>
           /\ uq.elapsed < TimeoutTicks )
         => /\ uq'.elapsed > uq.elapsed
            /\ UNCHANGED << main_pc, clientVars, queueVars >> ]_vars
  /\ UnqueueComesBack

\* the inspector lookup waited on an empty queue until the timeout, a "nil"
\* frame having arrived and been taken in between
C18_Witness ==
  /\ main_pc = "unqueue"
  /\ uq.caller = "open_decl_for_inspector_symbol"
  /\ uq.wait = "True"
  /\ uq.elapsed = TimeoutTicks
  /\ Len(received) = 1
  /\ received[1].raw = "nil"
  /\ queue = << >>

\* C19 as stated: every decoded frame is shown to every registered observer,
\* once.
C19_ObserversOnEveryDecodedFrame ==
  [][ (Took /\ Decoded(TookFrame))
        => observed' = Append(observed, [n |-> Head(queue).n,
                                         names |-> receive_callbacks]) ]_vars

\* C19 amended: the observers are called once, by one traversal, on every
\* decoded frame that carries a payload, ahead of typed dispatch and whether
\* or not the typehint has a handler and whatever the handler does; when an
\* observer raises, the traversal stops there and the exception leaves
\* unqueue before typed dispatch.  A frame without payload reaches none.
C19_ObserversOnEveryPayload ==
  [][ Took
        => IF Dispatched(TookFrame)
             THEN /\ Len(observed') = Len(observed) + 1
                  /\ observed'[Len(observed')].n = Head(queue).n
                  /\ IF Len(handled') > Len(handled)
                       THEN observed'[Len(observed')].names
                              = receive_callbacks
                       ELSE /\ raised' /\ main_pc' = "idle"
                            /\ observed'[Len(observed')].names
                                 \subseteq receive_callbacks
                            /\ observed'[Len(observed')].names # {}
                            /\ ran' = ran
             ELSE observed' = observed ]_vars

\* two observers saw both a frame without handler and a frame whose handler
\* raised
C19_Witness ==
  /\ Len(observed) = 2
  /\ observed[1] = [n |-> 1, names |-> {"o1", "o2"}]
  /\ observed[2] = [n |-> 2, names |-> {"o1", "o2"}]
  /\ received[1].payload = "UnknownEvent"
  /\ received[2].payload = "StringResponse"
  /\ handled = << 1, 2 >>
  /\ raised

\* C20: teardown leaves running false for good, and from then on no call of
\* the caller's thread starts a drain, runs a handler or an observer, or
\* writes to the connection.
C20_TeardownStopsSendAndDrain ==
  /\ [][Teardown => ~running']_vars
  /\ [][~running => ~running']_vars
  /\ [][ (~running /\ main_pc = "idle")
           => /\ main_pc' = "idle"
              /\ UNCHANGED << handled, ran, observed, messages, n_write,
                              wire, call_id >> ]_vars

\* torn down with a frame still queued, the connection object still set and
\* a completion waiting for its second phase
C20_Witness ==
  /\ ~running
  /\ n_stop > 0
  /\ main_pc = "idle"
  /\ ws # None
  /\ completion_started
  /\ queue # << >>
  /\ Dispatched(queue[1].frame)

\* ------------------------------------------------ Editor (editor.py)
\* the values offered in a menu
ChoiceValues == {"one", "two", "three"}

RECURSIVE SeqsUpTo(_)
SeqsUpTo(n) ==
  IF n = 0 THEN { << >> }
  ELSE SeqsUpTo(n - 1)
         \cup { Append(q, v) : q \in { r \in SeqsUpTo(n - 1) : Len(r) = n - 1 },
                                v \in ChoiceValues }

\* The number inputlist() yields is handed to Python as decimal text.
Digits == << "0", "1", "2", "3", "4", "5", "6", "7", "8", "9" >>

RECURSIVE NatText(_)
NatText(n) ==
  IF n < 10 THEN << Digits[n + 1] >>
  ELSE Append(NatText(n \div 10), Digits[(n % 10) + 1])

\* self._vim.eval(command) when the user's selection is c
vim_eval(c) == IF c < 0 THEN << "-" >> \o NatText(-c) ELSE NatText(c)

DigitValue(d) == (CHOOSE i \in 1..10 : Digits[i] = d) - 1

RECURSIVE NatOf(_)
NatOf(text) ==
  IF text = << >> THEN 0
  ELSE 10 * NatOf(SubSeq(text, 1, Len(text) - 1)) + DigitValue(text[Len(text)])

\* int(text)
int(text) == IF Head(text) = "-" THEN -NatOf(Tail(text)) ELSE NatOf(text)

\* menu = [prompt] + ["{0}. {1}".format(*choice) for choice in
\*                    enumerate(choices, start=1)]
menu_lines(prompt, choices) ==
  << prompt >> \o [i \in 1..Len(choices) |-> << i, choices[i] >>]

\* menu that accepts the selection 0, which choices[choice - 1] makes the
\* last choice
menu_accepts_zero(prompt, choices, reported) ==
  LET menu == menu_lines(prompt, choices)
      choice == int(reported)
  IN  IF ~(0 <= choice /\ choice < Len(menu)) \/ choices = << >> THEN << >>
      ELSE << choices[IF choice = 0 THEN Len(choices) ELSE choice] >>

\* Editor.menu: the result is << >> for None and << v >> for the value v;
\* choices[choice - 1] of the 0-based list is choices[choice] here
menu(prompt, choices, reported) ==
  LET menu == menu_lines(prompt, choices)
      choice == int(reported)
  IN  IF ~(0 < choice /\ choice < Len(menu)) THEN << >>
      ELSE << choices[choice] >>

\* menu(prompt, choices) with the user selecting c: a line of the list, the
\* prompt line (0), or a click outside of it
Menu ==
  /\ \E choices \in SeqsUpTo(MaxChoices), c \in -1..(MaxChoices + 1) :
       menu_call' = [called |-> TRUE, choices |-> choices, selection |-> c,
                     result |-> menu("Choose one:", choices, vim_eval(c))]
  /\ UNCHANGED << clientVars, queueVars, pump_pc, main_pc, raised, uq,
                  tcVars, pluginVars, drains, completes >>

SpecMenu == Init /\ [][Menu]_vars

\* C28: Editor.menu returns choices[c-1] (of the 0-based list) when the
\* editor reports a selection c with 1 <= c <= len(choices), and None for
\* every other value reported.
C28_MenuReturnsChoiceOrNone ==
  menu_call.called
    => LET c == menu_call.selection
           choices == menu_call.choices
       IN  IF 1 <= c /\ c <= Len(choices)
             THEN menu_call.result = << choices[c] >>
             ELSE menu_call.result = << >>

\* the second of three choices was selected and returned
C28_Witness ==
  /\ menu_call.called
  /\ menu_call.choices = << "one", "two", "three" >>
  /\ menu_call.selection = 2
  /\ menu_call.result = << "two" >>

\* -------------------------------------------- properties of the shutdown
\* C21: once running is false the pump starts no receive; a receive that was
\* in progress ends by returning or raising and leads back to the loop test
\* only; from the loop test the pump exits, and it stays exited.
C21_PumpExitsAfterTeardown ==
  /\ [][ (~running /\ pump_pc # "recv") => pump_pc' # "recv" ]_vars
  /\ [][ (~running /\ pump_pc = "recv" /\ pump_pc' # "recv")
           => (pump_pc' = "loop" /\ ~running') ]_vars
  /\ [][ pump_pc = "exited" => pump_pc' = "exited" ]_vars
  /\ (~running /\ pump_pc # "recv") ~> (pump_pc = "exited")

\* the caller tore down while the pump was receiving; the frame still came
\* in, and the pump exited after it
C21_Witness ==
  /\ pump_pc = "exited"
  /\ ~running
  /\ n_disable_plugin = 0
  /\ n_stop = 1
  /\ Len(received) = 1
  /\ queue # << >>

\* C22 as stated: when teardown returns (called by the caller or by the pump's
\* failure handler), the client holds no connection any more.
C22_TeardownReleasesConnection ==
  [][ (running /\ ~running') => ws' = None ]_vars

\* C29 as stated: code running on the pump thread issues no editor command.
C29_PumpNeverCommandsEditor == "command" \notin pump_vim

\* C30: when ws.recv() raises and the engine was already stopped, the pump
\* changes nothing (no teardown, no disable_plugin) and goes to its loop test,
\* which it can only leave by exiting; when the engine is running, the
\* failure path runs: teardown (running false, the server stopped if the
\* client is to stop it) and disable_plugin, once each, and no connection is
\* attempted.
C30_RecvFailureStopsOrFails ==
  /\ [][ RecvFailed
           => IF ~running
                THEN UNCHANGED clientVars
                ELSE /\ ~running'
                     /\ n_disable_plugin' = n_disable_plugin + 1
                     /\ n_stop' = n_stop + (IF ensime /\ toggle_teardown
                                              THEN 1 ELSE 0)
                     /\ pump_vim' # {}
                     /\ UNCHANGED << ws, n_create, n_disable_completely,
                                     number_try_connection >> ]_vars
  /\ [][ (~running /\ pump_pc = "loop") => pump_pc' # "recv" ]_vars

\* the receive failed on a running engine: the pump tore down and disabled
\* the plugin itself, and exited
C30_Witness ==
  /\ ~running
  /\ n_disable_plugin = 1
  /\ n_disable_completely = 0
  /\ n_stop = 1
  /\ pump_vim # {}
  /\ pump_pc = "exited"

\* ----------------------------------------------- properties of setup
\* C23: without the websocket module the gap was reported when the client was
\* built, the client has no connection and never created one, and a call of
\* setup, whatever it meets, returns False, raises nothing and creates none.
C23_MissingModuleSetupFatal ==
  ~websocket_exists
    => /\ messages # << >> /\ messages[1] = "module_missing"
       /\ ws = None /\ n_create = 0 /\ wire = << >>
       /\ \A i \in SetupInputs :
            LET s == SetupResult(i)
            IN  ~s.raised /\ ~s.ret /\ s.ws = None /\ s.n_create = 0

\* without the module, setup launched the server, a request was made and the
\* client was torn down: never a connection, nothing on the wire
C23_Witness ==
  /\ ~websocket_exists
  /\ ensime
  /\ call_id >= 1
  /\ ~running
  /\ n_stop = 1
  /\ ws = None /\ n_create = 0

\* C24: a call of setup creates a connection only when the launcher's
\* is_ready() answered true in that call, and no other operation creates one:
\* the reconnect of a failed send reaches connect_ensime_server without
\* asking the launcher, and finds the attempt counter at 0.
C24_ConnectsOnlyWhenReady ==
  /\ [](\A i \in SetupInputs :
          SetupResult(i).n_create > n_create => i.is_ready)
  /\ [][ (SendRequest \/ Teardown \/ PumpRecvFail)
           => n_create' = n_create ]_vars
  /\ [](ws # None => number_try_connection = 0)

\* connected by setup, then a send failed and went through reconnect: still
\* the one connection
C24_Witness ==
  /\ n_create = 1
  /\ ws # None
  /\ call_id >= 2
  /\ n_write > Len(wire)
  /\ n_disable_completely = 1

\* C25 as stated: when setup returns True the launcher's process exists and
\* the client has a connection.
C25_SetupTrueMeansConnected ==
  \A i \in SetupInputs :
    LET s == SetupResult(i)
    IN  (~s.raised /\ s.ret) => (s.ensime /\ s.ws # None)

\* ------------------------------------- properties of the reply handlers
\* C26: a RefactorDiffEffect of a supported kind that reaches dispatch reloads
\* the file (edit, then the BufRead autocommands) whether the patch utility
\* exits with zero or not; a non-zero exit adds the "failed_refactoring"
\* message and nothing else: nothing is raised and the drain goes on.
C26_FailedPatchReportedAndReloaded ==
  [][ ( /\ Took
        /\ Len(handled') > Len(handled)
        /\ TookFrame.payload = "RefactorDiffEffect"
        /\ TookFrame.body.refactorType \in SupportedRefactors )
      => /\ vim_commands'
              = vim_commands \o << "edit_file", "doautocmd_bufreadenter" >>
         /\ messages' = IF TookFrame.body.diff = "rejects"
                          THEN Append(messages, "failed_refactoring")
                          ELSE messages
         /\ ~raised'
         /\ main_pc' = "unqueue" ]_vars

\* a rename whose patch was rejected, then an import whose patch applied:
\* one message, two reloads
C26_Witness ==
  /\ Len(received) = 2
  /\ received[1].payload = "RefactorDiffEffect"
  /\ received[1].body.refactorType = "Rename"
  /\ received[1].body.diff = "rejects"
  /\ received[2].payload = "RefactorDiffEffect"
  /\ received[2].body.refactorType = "AddImport"
  /\ received[2].body.diff = "applies"
  /\ handled = << 1, 2 >>
  /\ messages = << "failed_refactoring" >>
  /\ vim_commands = << "edit_file", "doautocmd_bufreadenter",
                       "edit_file", "doautocmd_bufreadenter" >>

\* C27 as stated: a SymbolInfo reply that lacks a field the handler reads (the
\* declaration position, its file, or the line or offset in it) shows
\* "unknown_symbol", issues no other editor command, and raises nothing.
C27_MissingFieldSymbolNotFound ==
  [][ ( /\ Took
        /\ Len(handled') > Len(handled)
        /\ TookFrame.payload = "SymbolInfo"
        /\ ~( /\ TookFrame.body.declPos
              /\ TookFrame.body.file
              /\ TookFrame.body.position ) )
      => /\ messages' = Append(messages, "unknown_symbol")
         /\ vim_commands' = vim_commands
         /\ ~raised'
         /\ main_pc' = "unqueue" ]_vars

\* ------------------------------------------- properties of pending calls
\* C31 as stated: once the handler of a SymbolInfo or StringResponse reply
\* with call id k has returned, call_options has no entry for k.
C31_OptionsRemovedAfterReply ==
  [][ ( /\ Took
        /\ Len(handled') > Len(handled)
        /\ TookFrame.payload \in {"SymbolInfo", "StringResponse"}
        /\ ~raised' )
      => TookFrame.callId \notin DOMAIN call_options' ]_vars

\* C32 as stated: the reply to a call that stored no options is handled
\* without raising, and the drain goes on.
C32_NoOptionsIsValid ==
  [][ ( /\ Took
        /\ Len(handled') > Len(handled)
        /\ TookFrame.payload = "StringResponse"
        /\ TookFrame.callId \notin DOMAIN call_options
        /\ \E i \in 1..Len(wire) :
             /\ wire[i].callId = TookFrame.callId
             /\ wire[i].req = "DocUriAtPointReq" )
      => (~raised' /\ main_pc' = "unqueue") ]_vars

\* C34 as stated: a StringResponse replaces the buffer only when its callId is
\* the id format_source stored, and the reply to a doc_uri request never does.
C34_OnlyFormatReplyOverwrites ==
  [][ buffer_overwrites' # buffer_overwrites
        => /\ Took
           /\ TookFrame.callId = en_format_source_id
           /\ \E i \in 1..Len(wire) :
                /\ wire[i].callId = TookFrame.callId
                /\ wire[i].req = "FormatOneSourceReq" ]_vars

\* C33: every run of the patch utility is on the file recorded at request
\* time under the procedure id of the diff-ready event.
C33_PatchAppliedToRecordedFile ==
  \A i \in 1..Len(patched) :
    patched[i].procedureId \in DOMAIN refactorings
      => patched[i].path = refactorings[patched[i].procedureId]

\* C35: a connection implies an attempt counter of 0; the counter is 1 and
\* then 0, it never goes up, and a connection is created exactly when it
\* goes down, so at most once for a client.
C35_OneConnectionAttempt ==
  /\ [] ( /\ ws # None => number_try_connection = 0
          /\ number_try_connection \in {0, 1}
          /\ n_create = 1 - number_try_connection )
  /\ [][ /\ number_try_connection' <= number_try_connection
         /\ n_create' # n_create
              <=> number_try_connection' < number_try_connection ]_vars

\* connected with the one attempt, and a later failure of a send was answered
\* by disable_completely instead of a second connection
C35_Witness ==
  /\ ws # None
  /\ number_try_connection = 0
  /\ n_create = 1
  /\ n_disable_completely > 0

\* C36: over a client's lifetime the launcher's stop() is called at most
\* once, and so is disable_plugin.
C36_StopAndDisableAtMostOnce ==
  /\ n_stop <= 1
  /\ n_disable_plugin <= 1

\* ------------------------------------------------------------------ Ensime

\* how many EnsimeClient objects a behaviour builds
MaxClients == 3

\* the .ensime files of the projects the user edits
ConfigPaths == {"/p/.ensime", "/q/.ensime"}

\* EnsimeClient.__init__: self.running = True and
\* Thread(target=self.queue_poll).start(), before setup is called
NewClient(abs_path) == [path |-> abs_path, running |-> TRUE]

\* the pump threads alive for a config path: queue_poll loops while
\* self.running
LivePumps(cs, abs_path) ==
  { k \in 1..Len(cs) : cs[k].path = abs_path /\ cs[k].running }

\* client_for(config_path, create_client=...): the cached client, or a new
\* one that is cached only when its setup returns True
ClientFor ==
  /\ \E abs_path \in ConfigPaths, create_client \in BOOLEAN,
        setup_ok \in BOOLEAN :
       IF abs_path \in DOMAIN clients
         THEN UNCHANGED pluginVars
         ELSE IF create_client
                THEN /\ Len(constructed) < MaxClients
                     /\ constructed' = Append(constructed, NewClient(abs_path))
                     /\ clients' = IF setup_ok
                                     THEN Stored(clients, abs_path,
                                                 Len(constructed) + 1)
                                     ELSE clients
                ELSE UNCHANGED pluginVars
  /\ UNCHANGED << clientVars, queueVars, pump_pc, main_pc, raised, uq,
                  tcVars, menu_call, drains, completes >>

\* Ensime.teardown: for c in self.clients.values(): c.teardown()
EnsimeTeardown ==
  /\ constructed' =
       [k \in DOMAIN constructed |->
          IF \E abs_path \in DOMAIN clients : clients[abs_path] = k
            THEN [constructed[k] EXCEPT !.running = FALSE]
            ELSE constructed[k]]
  /\ UNCHANGED << clients, clientVars, queueVars, pump_pc, main_pc, raised,
                  uq, tcVars, menu_call, drains, completes >>

NextPlugin ==
  \/ ClientFor
  \/ EnsimeTeardown

SpecPlugin == Init /\ [][NextPlugin]_vars

\* C37: for a config path at most one client with a running pump thread
\* exists at any time.
C37_OnePumpPerConfigPath ==
  \A abs_path \in ConfigPaths :
    Cardinality(LivePumps(constructed, abs_path)) <= 1

\* C38: whenever unqueue is at self.queue.get(False) a frame is queued, so
\* queue.Empty is never raised.
C38_GetNeverOnEmptyQueue ==
  main_pc = "get" => queue # << >>

\* a waiting unqueue that took a "nil" frame, slept on the empty queue, and
\* is about to take the frame the pump has put meanwhile
C38_Witness ==
  /\ main_pc = "get"
  /\ uq.should_wait
  /\ uq.wait = "True"
  /\ uq.elapsed > 0
  /\ Len(received) = 2
  /\ received[1].raw = "nil"
  /\ Len(queue) = 1

\* ------------------------------------------- a frame on which unqueue raises

\* the unqueue_and_display call i of drains has ended
DrainEnded(i) == i < Len(drains) \/ main_pc = "idle"

\* every frame taken by the calls of drains, in the order taken
RECURSIVE TakenUpTo(_)
TakenUpTo(i) ==
  IF i = 0 THEN << >> ELSE TakenUpTo(i - 1) \o drains[i].taken

\* a frame was taken once at most, none that was taken is queued, and while no
\* call has followed one that raised the frames it left are queued in order
AbortedFrameGone ==
  /\ LET all == TakenUpTo(Len(drains))
     IN  /\ \A j, k \in 1..Len(all) : all[j] = all[k] => j = k
         /\ \A j \in 1..Len(all), k \in 1..Len(queue) : all[j] # queue[k].n
  /\ (drains # << >> /\ drains[Len(drains)].raised)
       => LET behind == drains[Len(drains)].behind
          IN  /\ Len(behind) <= Len(queue)
              /\ SubSeq(Numbers(queue), 1, Len(behind)) = behind
              /\ \A k \in 1..(Len(behind) - 1) : behind[k] < behind[k + 1]

FirstPhaseBefore(i) == i > 1 /\ completes[i - 1].findstart = 1

\* C40: a second-phase complete_func call drains the queue and returns
\* suggestions only if a first-phase call happened since the last second-phase
\* call, otherwise it returns an empty list and takes no frame; after every
\* second-phase call suggestions is cleared and completion_started is false.
C40_TwoPhaseCompletion ==
  \A i \in 1..Len(completes) :
    LET c == completes[i]
    IN  (c.findstart = 0 /\ c.ended)
          => /\ c.started => FirstPhaseBefore(i)
             /\ ~FirstPhaseBefore(i) => (c.result = << >> /\ c.taken = 0)
             /\ c.suggestions = << >>
             /\ ~c.completion_started

====
